---- MODULE Spec2Model ----
(***************************************************************************)
(* A model of the BurnBook analysis pipeline (src/burnbook/analyzer.py):   *)
(* file discovery, language resolution, per-file rule execution and the    *)
(* two-stage scoring engine.                                               *)
(***************************************************************************)
EXTENDS Integers, Sequences, FiniteSets, TLC

(***************************************************************************)
(* Python float arithmetic.                                                *)
(*                                                                         *)
(* The scoring engine computes with Python floats (IEEE 754 binary64,      *)
(* round to nearest, ties to even) and truncates with int().  A float is   *)
(* modelled as a record [neg, m, e]: m is the significand, a natural       *)
(* number written as a sequence of limbs of LimbBits bits, least           *)
(* significant limb first, and the value is (+/-) m * 2^e.  The canonical  *)
(* form has an odd significand or is FZero, so equal values are equal      *)
(* records.  The values of the scoring engine are far from the overflow    *)
(* and subnormal ranges, which are not modelled.                           *)
(***************************************************************************)

\* Significand width of a Python float (binary64).
MantissaBits == 53

\* Width of a limb of the model's multi-precision naturals.
LimbBits == 20

Base == 2^LimbBits

Min(a, b) == IF a <= b THEN a ELSE b

Max(a, b) == IF a >= b THEN a ELSE b

Reverse(s) == [i \in 1..Len(s) |-> s[Len(s) + 1 - i]]

\* Limb i of m, 0 beyond its ends.
Limb(m, i) == IF 1 <= i /\ i <= Len(m) THEN m[i] ELSE 0

\* Drop the zero limbs at the most significant end.
LTrim(m) ==
    IF \A i \in 1..Len(m) : m[i] = 0 THEN <<>>
    ELSE SubSeq(m, 1, CHOOSE i \in 1..Len(m) :
                         m[i] # 0 /\ \A j \in (i + 1)..Len(m) : m[j] = 0)

\* A small natural (below Base^2) as limbs, and back.
NatToLimbs(n) == LTrim(<<n % Base, n \div Base>>)

LimbsToNat(m) == Limb(m, 1) + Base * Limb(m, 2)

\* The number of bits of a limb x > 0.
IntBitLen(x) == CHOOSE k \in 1..LimbBits : 2^(k - 1) <= x /\ x < 2^k

\* The number of bits of a trimmed m.
LBitLen(m) ==
    IF m = <<>> THEN 0 ELSE LimbBits * (Len(m) - 1) + IntBitLen(m[Len(m)])

\* Bit j of m, the least significant being bit 0.
LBit(m, j) == (Limb(m, j \div LimbBits + 1) \div 2^(j % LimbBits)) % 2

\* m \div 2^d
LShr(m, d) ==
    LET q == d \div LimbBits
        r == d % LimbBits
    IN  LTrim([i \in 1..Max(Len(m) - q, 0) |->
                 m[i + q] \div 2^r + (Limb(m, i + q + 1) % 2^r) * 2^(LimbBits - r)])

\* m * 2^d
LShl(m, d) ==
    LET q == d \div LimbBits
        r == d % LimbBits
    IN  LTrim([i \in 1..(Len(m) + q + 1) |->
                 (Limb(m, i - q) % 2^(LimbBits - r)) * 2^r
                   + Limb(m, i - q - 1) \div 2^(LimbBits - r)])

\* The d low bits of m are all zero.
LLowZero(m, d) ==
    /\ \A i \in 1..Min(d \div LimbBits, Len(m)) : m[i] = 0
    /\ Limb(m, d \div LimbBits + 1) % 2^(d % LimbBits) = 0

\* The number of zero bits below the least significant 1 bit of m # 0.
LTrailingZeros(m) ==
    LET i == CHOOSE i \in 1..Len(m) : m[i] # 0 /\ \A j \in 1..(i - 1) : m[j] = 0
        k == CHOOSE k \in 0..(LimbBits - 1) :
                 m[i] % 2^(k + 1) # 0 /\ m[i] % 2^k = 0
    IN  (i - 1) * LimbBits + k

\* a + b + c from limb i on, c the carry in.
RECURSIVE LAddAt(_, _, _, _)
LAddAt(a, b, i, c) ==
    IF i > Len(a) /\ i > Len(b) THEN (IF c = 0 THEN <<>> ELSE <<c>>)
    ELSE <<(Limb(a, i) + Limb(b, i) + c) % Base>>
           \o LAddAt(a, b, i + 1, (Limb(a, i) + Limb(b, i) + c) \div Base)

LAdd(a, b) == LAddAt(a, b, 1, 0)

\* a - b - c from limb i on with a >= b, c the borrow in.
RECURSIVE LSubAt(_, _, _, _)
LSubAt(a, b, i, c) ==
    IF i > Len(a) THEN <<>>
    ELSE <<(Limb(a, i) - Limb(b, i) - c + Base) % Base>>
           \o LSubAt(a, b, i + 1, IF Limb(a, i) - Limb(b, i) - c < 0 THEN 1 ELSE 0)

LSub(a, b) == LTrim(LSubAt(a, b, 1, 0))

\* a * k + c from limb i on, for a natural k below Base.
RECURSIVE LMulAt(_, _, _, _)
LMulAt(a, k, i, c) ==
    IF i > Len(a) THEN (IF c = 0 THEN <<>> ELSE <<c>>)
    ELSE <<(a[i] * k + c) % Base>> \o LMulAt(a, k, i + 1, (a[i] * k + c) \div Base)

LMul(a, k) == LTrim(LMulAt(a, k, 1, 0))

\* a >= b on trimmed limb sequences.
LGeq(a, b) ==
    IF Len(a) # Len(b) THEN Len(a) > Len(b)
    ELSE IF a = b THEN TRUE
    ELSE LET i == CHOOSE i \in 1..Len(a) :
                     a[i] # b[i] /\ \A j \in (i + 1)..Len(a) : a[j] = b[j]
         IN  a[i] > b[i]

FZero == [neg |-> FALSE, m |-> <<>>, e |-> 0]

\* The canonical form of (+/-) m * 2^e (m trimmed): the low zero bits of m
\* move into the exponent.
FCanon(neg, m, e) ==
    IF m = <<>> THEN FZero
    ELSE [neg |-> neg, m |-> LShr(m, LTrailingZeros(m)), e |-> e + LTrailingZeros(m)]

\* Round (+/-) m * 2^e (m trimmed; sticky: a non-zero part lies below m) to
\* MantissaBits significant bits, to nearest, ties to even.
FRound(neg, m, e, sticky) ==
    LET d == LBitLen(m) - MantissaBits
    IN  IF d <= 0 THEN FCanon(neg, m, e)
        ELSE LET kept == LShr(m, d)
                 up   == /\ LBit(m, d - 1) = 1
                         /\ (sticky \/ ~LLowZero(m, d - 1) \/ kept[1] % 2 = 1)
             IN  FCanon(neg, IF up THEN LAddAt(kept, <<>>, 1, 1) ELSE kept, e + d)

\* The limbs of the fraction r / b after the point, the first n of them from
\* the most significant on, followed by the remainder (0 <= r < b, b * Base
\* within the int range of the checker).
RECURSIVE QuotLimbs(_, _, _)
QuotLimbs(r, b, n) ==
    IF n = 0 THEN <<r>>
    ELSE <<(r * Base) \div b>> \o QuotLimbs((r * Base) % b, b, n - 1)

\* The number of fraction limbs that hold MantissaBits + 2 significant bits of
\* a quotient whose first fraction limb is not 0.
FracLimbs == (MantissaBits + 2) \div LimbBits + 2

\* p / b of two ints p >= 0, b > 0 (true division): the float nearest to the
\* quotient.  A float literal such as 0.15 is the float nearest to 15 / 100.
FDivInt(p, b) ==
    LET q == QuotLimbs(p % b, b, FracLimbs)
    IN  FRound(FALSE,
               LTrim(Reverse(SubSeq(q, 1, FracLimbs)) \o NatToLimbs(p \div b)),
               0 - FracLimbs * LimbBits,
               q[FracLimbs + 1] # 0)

\* k * f for an int k and a float f: the float nearest to the product.
FMulInt(k, f) ==
    IF k >= 0 THEN FRound(f.neg, LMul(f.m, k), f.e, FALSE)
    ELSE FRound(~f.neg, LMul(f.m, 0 - k), f.e, FALSE)

\* |f| >= |g|
FAbsGeq(f, g) ==
    IF g.m = <<>> THEN TRUE
    ELSE IF f.m = <<>> THEN FALSE
    ELSE LGeq(LShl(f.m, f.e - Min(f.e, g.e)), LShl(g.m, g.e - Min(f.e, g.e)))

\* f + g: the float nearest to the sum.
FAdd(f, g) ==
    IF f.m = <<>> THEN g
    ELSE IF g.m = <<>> THEN f
    ELSE LET e0 == Min(f.e, g.e)
             a  == LShl(f.m, f.e - e0)
             b  == LShl(g.m, g.e - e0)
         IN  IF f.neg = g.neg THEN FRound(f.neg, LAdd(a, b), e0, FALSE)
             ELSE IF LGeq(a, b) THEN FRound(f.neg, LSub(a, b), e0, FALSE)
             ELSE FRound(g.neg, LSub(b, a), e0, FALSE)

\* f - g
FSub(f, g) == FAdd(f, [g EXCEPT !.neg = ~g.neg])

\* Long division of n by d (trimmed, d # 0) over the bits i down to j of n,
\* brought down one by one into the remainder r: the quotient of these bits
\* and the remainder left.
RECURSIVE LongDiv(_, _, _, _, _)
LongDiv(n, d, i, j, r) ==
    IF i = j
    THEN LET r1 == LAdd(LShl(r, 1), NatToLimbs(LBit(n, i)))
         IN  IF LGeq(r1, d) THEN [q |-> <<1>>, r |-> LSub(r1, d)]
             ELSE [q |-> <<>>, r |-> r1]
    ELSE LET h  == (i + j + 1) \div 2
             hi == LongDiv(n, d, i, h, r)
             lo == LongDiv(n, d, h - 1, j, hi.r)
         IN  [q |-> LAdd(LShl(hi.q, h - j), lo.q), r |-> lo.r]

\* f / g of floats, g # 0: the float nearest to the quotient.  A divisor that
\* is a power of two only moves the exponent.
FDiv(f, g) ==
    IF f.m = <<>> THEN FZero
    ELSE IF g.m = <<1>> THEN [f EXCEPT !.e = f.e - g.e, !.neg = (f.neg # g.neg)]
    ELSE LET k  == MantissaBits + 2 + LBitLen(g.m)
             n  == LShl(f.m, k)
             ld == LongDiv(n, g.m, LBitLen(n) - 1, 0, <<>>)
         IN  FRound(f.neg # g.neg, ld.q, f.e - g.e - k, ld.r # <<>>)

\* int(f) for |f| < 2^31: truncation toward zero.
FTrunc(f) ==
    (IF f.neg THEN 0 - 1 ELSE 1)
      * (IF f.e >= 0 THEN LimbsToNat(LShl(f.m, f.e)) ELSE LimbsToNat(LShr(f.m, 0 - f.e)))

\* round(f, ndigits) for a float f >= 0 and ndigits >= 0: the float nearest
\* to the decimal with ndigits digits after the point that is nearest to the
\* exact value of f, the even one of two equally near.
round(f, ndigits) ==
    LET scaled == LMul(f.m, 10^ndigits)
        kept   == IF f.e >= 0 THEN LShl(scaled, f.e) ELSE LShr(scaled, 0 - f.e)
        up     == /\ f.e < 0
                  /\ LBit(scaled, 0 - f.e - 1) = 1
                  /\ (~LLowZero(scaled, 0 - f.e - 1) \/ Limb(kept, 1) % 2 = 1)
    IN  FDivInt(LimbsToNat(kept) + (IF up THEN 1 ELSE 0), 10^ndigits)

\* sum(xs[1..n]) by plain left-to-right float addition from the int 0, as the
\* sum() builtin of CPython up to 3.11 adds.
RECURSIVE FSumPlain(_, _)
FSumPlain(xs, n) ==
    IF n = 0 THEN FZero ELSE FAdd(FSumPlain(xs, n - 1), xs[n])

\* The running sum s and compensation c after xs[1..n] as the sum() builtin
\* of CPython from 3.12 on adds floats (Neumaier's compensated summation):
\*     t = s + x;  c += (s - t) + x if |s| >= |x| else (x - t) + s;  s = t
RECURSIVE FSumCompensated(_, _)
FSumCompensated(xs, n) ==
    IF n = 0 THEN [s |-> FZero, c |-> FZero]
    ELSE LET prev == FSumCompensated(xs, n - 1)
             x    == xs[n]
             t    == FAdd(prev.s, x)
         IN  [s |-> t,
              c |-> FAdd(prev.c,
                         IF FAbsGeq(prev.s, x) THEN FAdd(FSub(prev.s, t), x)
                         ELSE FAdd(FSub(x, t), prev.s))]

\* sum(xs) of a sequence of floats under the interpreter's summation; the
\* compensated sum adds c at the end when it is not zero.
FSum(xs, compensated) ==
    IF compensated
    THEN LET r == FSumCompensated(xs, Len(xs))
         IN  IF r.c.m # <<>> THEN FAdd(r.s, r.c) ELSE r.s
    ELSE FSumPlain(xs, Len(xs))

(***************************************************************************)
(* The scoring engine: Analyzer._compute_category_scores and               *)
(* Analyzer._compute_overall_score.  An issue is a record with the fields  *)
(* file, rule_id, category and severity of rules.Issue.                    *)
(***************************************************************************)

\* The keys of the categories dict, in its order.
Categories ==
    <<"complexity", "naming", "security", "duplication",
      "documentation", "dead_code", "style", "testing">>

CategorySet == {Categories[i] : i \in 1..Len(Categories)}

Severities == {"critical", "high", "medium", "low", "info"}

\* The penalty table with a critical issue costing nothing.
severity_penalty_no_critical(sev) ==
    CASE sev = "high"   -> 8
      [] sev = "medium" -> 4
      [] sev = "low"    -> 1
      [] OTHER          -> 0

\* severity_penalty.get(sev, 1)
severity_penalty(sev) ==
    CASE sev = "critical" -> 15
      [] sev = "high"     -> 8
      [] sev = "medium"   -> 4
      [] sev = "low"      -> 1
      [] sev = "info"     -> 0
      [] OTHER            -> 1

\* sum(categories[cat]): the penalties of the issues of category cat, those
\* of the first half of the list and then those of the second.
RECURSIVE total_penalty(_, _)
total_penalty(issues, cat) ==
    IF issues = <<>> THEN 0
    ELSE IF Len(issues) = 1
    THEN (IF issues[1].category = cat THEN severity_penalty(issues[1].severity) ELSE 0)
    ELSE total_penalty(SubSeq(issues, 1, Len(issues) \div 2), cat)
         + total_penalty(SubSeq(issues, Len(issues) \div 2 + 1, Len(issues)), cat)

\* The baseline without the factor 2.
baseline_per_file(files_analyzed) == Max(files_analyzed, 10)

\* baseline = max(files_analyzed * 2, 10)
baseline(files_analyzed) == Max(files_analyzed * 2, 10)

\* The score without its clamp to [0, 100].
category_score_unclamped(penalty, base) ==
    100 - FTrunc(FMulInt(30, FDivInt(penalty, base)))

\* The score counted down from 99.
category_score_from_99(penalty, base) ==
    Min(100, Max(0, 99 - FTrunc(FMulInt(30, FDivInt(penalty, base)))))

\* min(100, max(0, 100 - int((total_penalty / baseline) * 30)))
category_score(penalty, base) ==
    Min(100, Max(0, 100 - FTrunc(FMulInt(30, FDivInt(penalty, base)))))

\* Analyzer._compute_category_scores(issues, files_analyzed, total_lines)
compute_category_scores(issues, files_analyzed) ==
    [cat \in CategorySet |->
        category_score(total_penalty(issues, cat), baseline(files_analyzed))]

\* The keys of the weights dict, in its order.
WeightOrder ==
    <<"complexity", "security", "naming", "duplication",
      "documentation", "dead_code", "style", "testing">>

\* The weights with duplication and testing at 0.05 and complexity and
\* security at 0.25 and 0.30.
weights_shifted ==
    [complexity    |-> FDivInt(25, 100),
     security      |-> FDivInt(30, 100),
     naming        |-> FDivInt(10, 100),
     duplication   |-> FDivInt(5, 100),
     documentation |-> FDivInt(10, 100),
     dead_code     |-> FDivInt(10, 100),
     style         |-> FDivInt(5, 100),
     testing       |-> FDivInt(5, 100)]

\* The weights dict; a float literal such as 0.20 is the float nearest to
\* 20 / 100.
weights ==
    [complexity    |-> FDivInt(20, 100),
     security      |-> FDivInt(20, 100),
     naming        |-> FDivInt(10, 100),
     duplication   |-> FDivInt(15, 100),
     documentation |-> FDivInt(10, 100),
     dead_code     |-> FDivInt(10, 100),
     style         |-> FDivInt(5, 100),
     testing       |-> FDivInt(10, 100)]

\* category_scores.get(cat, 100)
GetScore(category_scores, cat) ==
    IF cat \in DOMAIN category_scores THEN category_scores[cat] ELSE 100

\* sum(weights.values()) under either summation.
WeightSums ==
    [compensated \in BOOLEAN |->
        FSum([i \in 1..Len(WeightOrder) |-> weights[WeightOrder[i]]], compensated)]

\* total_weight = sum(weights.values())
total_weight(compensated) == WeightSums[compensated]

\* weighted_sum = sum(category_scores.get(cat, 100) * w for cat, w in weights.items())
weighted_sum(category_scores, compensated) ==
    FSum([i \in 1..Len(WeightOrder) |->
            FMulInt(GetScore(category_scores, WeightOrder[i]), weights[WeightOrder[i]])],
         compensated)

\* Analyzer._compute_overall_score(category_scores)
compute_overall_score(category_scores, compensated) ==
    Max(0, Min(100, FTrunc(FDiv(weighted_sum(category_scores, compensated),
                                total_weight(compensated)))))

\* Analyzer._compute_metrics(issues, files_analyzed, total_lines)
compute_metrics(issues, files_analyzed, total_lines) ==
    LET count(field, value) == Cardinality({k \in DOMAIN issues : issues[k][field] = value})
    IN  [files_analyzed  |-> files_analyzed,
         total_lines     |-> total_lines,
         total_issues    |-> Len(issues),
         issues_per_file |-> round(FDivInt(Len(issues), Max(files_analyzed, 1)), 2),
         severity_counts |->
             [sev \in {"critical", "high", "medium", "low", "info"}
                        \cup {issues[k].severity : k \in DOMAIN issues} |->
                 count("severity", sev)],
         category_counts |->
             [cat \in {issues[k].category : k \in DOMAIN issues} |-> count("category", cat)]]

(***************************************************************************)
(* Paths, glob patterns and the language tables.                           *)
(*                                                                         *)
(* A file or directory name is the sequence of its dot-separated parts:    *)
(* "x.min.js" is <<"x", "min", "js">> and ".git" is <<"", "git">>.  A glob  *)
(* pattern of the tables below is a literal name or "*." followed by a     *)
(* literal; it is the record [star, parts].  Names are compared as on a    *)
(* POSIX system, where fnmatch does not fold case.                         *)
(***************************************************************************)

Lit(parts) == [star |-> FALSE, parts |-> parts]

Star(parts) == [star |-> TRUE, parts |-> parts]

\* fnmatch.fnmatch(name, pat): a literal matches the equal name; "*.tail"
\* matches the names that end with ".tail".
fnmatch(name, pat) ==
    IF pat.star
    THEN /\ Len(name) >= Len(pat.parts) + 1
         /\ SubSeq(name, Len(name) - Len(pat.parts) + 1, Len(name)) = pat.parts
    ELSE name = pat.parts

\* fnmatch.fnmatch(str(path), pat) for the path of name under the directories
\* dirs: "*.tail" matches the path when it matches the name, and a literal
\* without a separator matches only a path that is the bare name.
fnmatch_path(dirs, name, pat) ==
    IF pat.star THEN fnmatch(name, pat) ELSE dirs = <<>> /\ name = pat.parts

\* Path.suffix: the last part with its dot; a name without a dot, or with its
\* only dot in front, has none.
suffix(name) ==
    IF Len(name) < 2 \/ (Len(name) = 2 /\ name[1] = "") THEN ""
    ELSE "." \o name[Len(name)]

\* str.lower() on the strings of the model; only these have upper-case
\* letters.
lower(str) ==
    CASE str = ".PY" -> ".py"
      [] str = ".JS" -> ".js"
      [] str = "PASSWORD" -> "password"
      [] OTHER       -> str

None == "None"

LANGUAGE_EXTENSIONS ==
    [python     |-> {".py"},
     javascript |-> {".js", ".mjs", ".cjs", ".jsx"},
     typescript |-> {".ts", ".tsx"},
     go         |-> {".go"},
     rust       |-> {".rs"},
     java       |-> {".java"}]

\* ALL_SUPPORTED_EXTENSIONS: extension -> language.
ALL_SUPPORTED_EXTENSIONS ==
    [ext \in UNION {LANGUAGE_EXTENSIONS[lang] : lang \in DOMAIN LANGUAGE_EXTENSIONS} |->
        CHOOSE lang \in DOMAIN LANGUAGE_EXTENSIONS : ext \in LANGUAGE_EXTENSIONS[lang]]

DEFAULT_IGNORE_DIRS ==
    {Lit(<<"__pycache__">>), Lit(<<"", "git">>), Lit(<<"", "hg">>), Lit(<<"", "svn">>),
     Lit(<<"node_modules">>), Lit(<<"", "venv">>), Lit(<<"venv">>), Lit(<<"env">>),
     Lit(<<"", "env">>), Lit(<<"dist">>), Lit(<<"build">>), Lit(<<"target">>),
     Lit(<<"", "idea">>), Lit(<<"", "vscode">>), Lit(<<"coverage">>),
     Lit(<<"", "nyc_output">>), Lit(<<"", "pytest_cache">>), Lit(<<"", "mypy_cache">>),
     Lit(<<"", "ruff_cache">>), Lit(<<"vendor">>), Lit(<<"third_party">>),
     Lit(<<"", "eggs">>), Star(<<"egg-info">>)}

DEFAULT_IGNORE_FILES ==
    {Star(<<"min", "js">>), Star(<<"min", "css">>), Star(<<"bundle", "js">>),
     Star(<<"map">>), Star(<<"lock">>), Lit(<<"package-lock", "json">>),
     Lit(<<"yarn", "lock">>), Lit(<<"Pipfile", "lock">>), Lit(<<"poetry", "lock">>),
     Lit(<<"go", "sum">>)}

\* rules.detect_language(file_path)
detect_language(file_path) ==
    LET ext_map == [ext \in {".py", ".js", ".mjs", ".cjs", ".jsx", ".ts", ".tsx",
                             ".go", ".rs", ".java"} |->
                       CASE ext = ".py" -> "python"
                         [] ext \in {".js", ".mjs", ".cjs", ".jsx"} -> "javascript"
                         [] ext \in {".ts", ".tsx"} -> "typescript"
                         [] ext = ".go" -> "go"
                         [] ext = ".rs" -> "rust"
                         [] ext = ".java" -> "java"]
    IN  IF lower(suffix(file_path.name)) \in DOMAIN ext_map
        THEN ext_map[lower(suffix(file_path.name))] ELSE "unknown"

(***************************************************************************)
(* The rule registry.                                                      *)
(*                                                                         *)
(* A rule is the record [rule_id, category].  What a rule finds in a file  *)
(* is a property of the file's content: a file carries "hits", the         *)
(* findings [rule_id, line, severity] that the rules' checks make in it.   *)
(***************************************************************************)

Rule(rule_id, category) == [rule_id |-> rule_id, category |-> category]

\* common_rules.RULES
common_rules ==
    <<Rule("CMN001", "style"), Rule("CMN002", "dead_code"), Rule("CMN003", "security"),
      Rule("CMN004", "style"), Rule("CMN005", "style"), Rule("CMN006", "style"),
      Rule("CMN007", "complexity"), Rule("CMN008", "style")>>

\* python_rules.RULES
python_rules ==
    <<Rule("PY001", "complexity"), Rule("PY002", "complexity"), Rule("PY003", "naming"),
      Rule("PY004", "style"), Rule("PY005", "style"), Rule("PY006", "documentation"),
      Rule("PY007", "style"), Rule("PY008", "dead_code"), Rule("PY009", "style"),
      Rule("PY010", "style")>>

\* javascript_rules.RULES
javascript_rules ==
    <<Rule("JS001", "complexity"), Rule("JS002", "style"), Rule("JS003", "style"),
      Rule("JS004", "style"), Rule("JS005", "style"), Rule("JS006", "security"),
      Rule("JS007", "style"), Rule("JS008", "style")>>

\* go_rules.RULES
go_rules ==
    <<Rule("GO001", "style"), Rule("GO002", "style"), Rule("GO003", "style"),
      Rule("GO004", "complexity"), Rule("GO005", "complexity")>>

\* rust_rules.RULES
rust_rules ==
    <<Rule("RS001", "style"), Rule("RS002", "security"), Rule("RS003", "style"),
      Rule("RS004", "style")>>

\* java_rules.RULES
java_rules ==
    <<Rule("JV001", "complexity"), Rule("JV002", "style"), Rule("JV003", "style"),
      Rule("JV004", "complexity"), Rule("JV005", "style")>>

\* rules.get_rules_for_language(language)
get_rules_for_language(language) ==
    common_rules \o
      (CASE language = "python" -> python_rules
         [] language \in {"javascript", "typescript"} -> javascript_rules
         [] language = "go" -> go_rules
         [] language = "rust" -> rust_rules
         [] language = "java" -> java_rules
         [] OTHER -> python_rules \o javascript_rules \o go_rules \o rust_rules \o java_rules)

\* The RULES lists of the modules of the rules package, as list objects: a
\* list object is an index of a sequence of lists, and these six are there
\* from the import on.
RULES == <<common_rules, python_rules, javascript_rules, go_rules, rust_rules, java_rules>>

\* The list object that is the RULES of a module.
RULES_of ==
    [common_rules |-> 1, python_rules |-> 2, javascript_rules |-> 3,
     go_rules |-> 4, rust_rules |-> 5, java_rules |-> 6]

\* No copy: the list object itself.
list_same(heap, src) == [heap |-> heap, id |-> src]

\* list(src): a new list object with the elements of src.
list(heap, src) == [heap |-> Append(heap, heap[src]), id |-> Len(heap) + 1]

\* dst.extend(src)
extend(heap, dst, src) == [heap EXCEPT ![dst] = @ \o heap[src]]

\* rules.get_rules_for_language(language) on the list objects: the lists
\* after the call and the list object returned.
get_rules_for_language_call(heap, language) ==
    LET rules == list(heap, RULES_of.common_rules)
        with(h, name) == extend(h, rules.id, RULES_of[name])
    IN  [heap |->
            CASE language = "python" -> with(rules.heap, "python_rules")
              [] language \in {"javascript", "typescript"} -> with(rules.heap, "javascript_rules")
              [] language = "go" -> with(rules.heap, "go_rules")
              [] language = "rust" -> with(rules.heap, "rust_rules")
              [] language = "java" -> with(rules.heap, "java_rules")
              [] OTHER -> with(with(with(with(with(rules.heap, "python_rules"),
                              "javascript_rules"), "go_rules"), "rust_rules"), "java_rules"),
         id |-> rules.id]

\* The path of a file: its directories below the target, then its name.
path_of(file) == Append(file.dirs, file.name)

\* rule.check(file_path, content, lines): one Issue for each finding of the
\* rule in the file, in line order.
RECURSIVE check(_, _, _)
check(rule, file_path, k) ==
    IF k > Len(file_path.hits) THEN <<>>
    ELSE (IF file_path.hits[k].rule_id = rule.rule_id
          THEN <<[file     |-> path_of(file_path),
                  line     |-> file_path.hits[k].line,
                  category |-> rule.category,
                  severity |-> file_path.hits[k].severity,
                  rule_id  |-> rule.rule_id]>>
          ELSE <<>>)
         \o check(rule, file_path, k + 1)

\* The loop over the rules without the try around rule.check: the first rule
\* that raises ends the checks of the file.
RECURSIVE check_rules_unguarded(_, _, _)
check_rules_unguarded(rules, file_path, k) ==
    IF k > Len(rules) \/ rules[k].rule_id \in file_path.raises THEN <<>>
    ELSE check(rules[k], file_path, 1) \o check_rules_unguarded(rules, file_path, k + 1)

\* The loop over the rules with the issues of a rule put before those of the
\* rules checked earlier.
RECURSIVE check_rules_prepending(_, _, _)
check_rules_prepending(rules, file_path, k) ==
    IF k > Len(rules) THEN <<>>
    ELSE check_rules_prepending(rules, file_path, k + 1)
         \o (IF rules[k].rule_id \in file_path.raises THEN <<>>
             ELSE check(rules[k], file_path, 1))

\* for rule in rules: try: all_issues.extend(rule.check(...)) except
\* Exception: pass, from rule k on.  file_path.raises holds the rules whose
\* check raises on the file.
RECURSIVE check_rules(_, _, _)
check_rules(rules, file_path, k) ==
    IF k > Len(rules) THEN <<>>
    ELSE (IF rules[k].rule_id \in file_path.raises THEN <<>>
          ELSE check(rules[k], file_path, 1))
         \o check_rules(rules, file_path, k + 1)

(***************************************************************************)
(* The Analyzer.                                                           *)
(*                                                                         *)
(* An analyzer is the record of the fields of an Analyzer object.  Its     *)
(* target is [exists, is_file, entries]: for a file target entries holds   *)
(* the file; for a directory target entries holds the files below it in    *)
(* the order in which os.walk meets them; for a path at which there is     *)
(* nothing entries is empty.  A file is [dirs, name, lines, readable,      *)
(* raises, hits], dirs being the names of the directories between the      *)
(* target and the file, readable telling whether read_text succeeds, and   *)
(* raises holding the rule_ids of the rules whose check raises on the      *)
(* file.  max_files is a natural number and progress_callback tells        *)
(* whether a callback was given.                                           *)
(***************************************************************************)

\* Analyzer._is_excluded(path), for the path of name under dirs.
is_excluded(an, dirs, name) ==
    \E k \in 1..Len(an.exclude_patterns) :
        \/ fnmatch(name, an.exclude_patterns[k])
        \/ fnmatch_path(dirs, name, an.exclude_patterns[k])

\* The directory of the file alone is looked at, not the directories above.
pruned_parent(an, file) ==
    /\ file.dirs # <<>>
    /\ \E k \in {Len(file.dirs)} :
        \/ Lit(file.dirs[k]) \in DEFAULT_IGNORE_DIRS
        \/ \E pat \in DEFAULT_IGNORE_DIRS : fnmatch(file.dirs[k], pat)
        \/ is_excluded(an, SubSeq(file.dirs, 1, k - 1), file.dirs[k])

\* The walk does not enter the directory of the file: one of the directories
\* on the way to it was removed from dirs[:].
pruned(an, file) ==
    \E k \in 1..Len(file.dirs) :
        \/ Lit(file.dirs[k]) \in DEFAULT_IGNORE_DIRS
        \/ \E pat \in DEFAULT_IGNORE_DIRS : fnmatch(file.dirs[k], pat)
        \/ is_excluded(an, SubSeq(file.dirs, 1, k - 1), file.dirs[k])

\* One turn of the loop of Analyzer._collect_files() (lines 170-183), on entry
\* k of the walk with the files collected so far: the files after it, and
\* whether the turn returned them.
collect_file(an, k, files) ==
    IF \/ pruned(an, an.target.entries[k])
       \/ is_excluded(an, an.target.entries[k].dirs, an.target.entries[k].name)
       \/ \E pat \in DEFAULT_IGNORE_FILES : fnmatch(an.target.entries[k].name, pat)
    THEN [files |-> files, returned |-> FALSE]
    ELSE LET collected ==
                 IF lower(suffix(an.target.entries[k].name)) \in DOMAIN ALL_SUPPORTED_EXTENSIONS
                 THEN Append(files, an.target.entries[k]) ELSE files
         IN  [files |-> collected, returned |-> Len(collected) >= an.max_files]

\* The turns of the loop on the entries lo..hi of the walk, in order, up to
\* the turn that returns: the first half of the entries, then the second.
RECURSIVE collect_range(_, _, _, _)
collect_range(an, lo, hi, files) ==
    IF lo > hi THEN [files |-> files, returned |-> FALSE]
    ELSE IF lo = hi THEN collect_file(an, lo, files)
    ELSE LET mid  == (lo + hi) \div 2
             left == collect_range(an, lo, mid, files)
         IN  IF left.returned THEN left
             ELSE collect_range(an, mid + 1, hi, left.files)

\* Analyzer._collect_files()
collect_files(an) == collect_range(an, 1, Len(an.target.entries), <<>>).files

\* The language of the first of the files.
detect_first_language(files) ==
    IF files = <<>> THEN "unknown"
    ELSE ALL_SUPPORTED_EXTENSIONS[lower(suffix(files[1].name))]

\* Analyzer._detect_dominant_language(files): the language with the most
\* files; of several, max() returns the one that entered lang_counts first.
detect_dominant_language(files) ==
    LET counted == {k \in 1..Len(files) :
                       lower(suffix(files[k].name)) \in DOMAIN ALL_SUPPORTED_EXTENSIONS}
        lang_of(k) == ALL_SUPPORTED_EXTENSIONS[lower(suffix(files[k].name))]
        lang_counts(lang) == Cardinality({k \in counted : lang_of(k) = lang})
        first(lang) == CHOOSE k \in counted :
                           lang_of(k) = lang /\ \A j \in counted : lang_of(j) = lang => k <= j
    IN  IF counted = {} THEN "unknown"
        ELSE CHOOSE lang \in {lang_of(k) : k \in counted} :
                 \A other \in {lang_of(k) : k \in counted} :
                     \/ lang_counts(lang) > lang_counts(other)
                     \/ lang_counts(lang) = lang_counts(other) /\ first(lang) <= first(other)

\* No filter to the detected language.
language_filter_off(files, detected_lang) == files

\* The filter to the detected language (analyze, lines 97-101).
language_filter(files, detected_lang) ==
    LET valid_exts == IF detected_lang \in DOMAIN LANGUAGE_EXTENSIONS
                      THEN LANGUAGE_EXTENSIONS[detected_lang] ELSE {}
        valid(file) == lower(suffix(file.name)) \in valid_exts
    IN  IF detected_lang \notin {None, "", "auto"} /\ valid_exts # {}
        THEN SelectSeq(files, valid) ELSE files

\* files[:max_files]
truncate(files, max_files) == SubSeq(files, 1, Min(Len(files), max_files))

\* One turn of the loop over the files with the count of the file moved out
\* of the try: a file that cannot be read is counted.
analyze_file_counted_unread(file_path, rules) ==
    IF file_path.readable
    THEN [all_issues  |-> check_rules(rules, file_path, 1),
          total_lines |-> file_path.lines,
          analyzed    |-> 1]
    ELSE [all_issues |-> <<>>, total_lines |-> 0, analyzed |-> 1]

\* One turn of the loop over the files (analyze, lines 112-130): what the
\* file adds to all_issues, to total_lines and to self._files_analyzed.  When
\* read_text raises OSError the turn adds nothing.
analyze_file(file_path, rules) ==
    IF file_path.readable
    THEN [all_issues  |-> check_rules(rules, file_path, 1),
          total_lines |-> file_path.lines,
          analyzed    |-> 1]
    ELSE [all_issues |-> <<>>, total_lines |-> 0, analyzed |-> 0]

\* The loop over the files with total_lines assigned, not added: the lines
\* of the last file that was read.
RECURSIVE analyze_files_last_lines(_, _, _, _)
analyze_files_last_lines(files, rules, lo, hi) ==
    IF lo > hi THEN [all_issues |-> <<>>, total_lines |-> 0, analyzed |-> 0]
    ELSE IF lo = hi THEN analyze_file(files[lo], rules)
    ELSE LET mid   == (lo + hi) \div 2
             left  == analyze_files_last_lines(files, rules, lo, mid)
             right == analyze_files_last_lines(files, rules, mid + 1, hi)
         IN  [all_issues  |-> left.all_issues \o right.all_issues,
              total_lines |-> IF right.analyzed > 0 THEN right.total_lines
                              ELSE left.total_lines,
              analyzed    |-> left.analyzed + right.analyzed]

\* The loop over the files (analyze, lines 111-130), on the files lo..hi in
\* order, the first half and then the second: the issues, the lines and the
\* number of the files that could be read.
RECURSIVE analyze_files(_, _, _, _)
analyze_files(files, rules, lo, hi) ==
    IF lo > hi THEN [all_issues |-> <<>>, total_lines |-> 0, analyzed |-> 0]
    ELSE IF lo = hi THEN analyze_file(files[lo], rules)
    ELSE LET mid   == (lo + hi) \div 2
             left  == analyze_files(files, rules, lo, mid)
             right == analyze_files(files, rules, mid + 1, hi)
         IN  [all_issues  |-> left.all_issues \o right.all_issues,
              total_lines |-> left.total_lines + right.total_lines,
              analyzed    |-> left.analyzed + right.analyzed]

\* The arguments of the calls of the progress callback (analyze, lines
\* 126-127 and 132-136): step_size after each file that was read, then what
\* remains of 100 after step_size for every file of the loop.
progress_calls(step_size, analyzed, n_files) ==
    LET remaining == 100 - (step_size * n_files)
    IN  [k \in 1..analyzed |-> step_size]
          \o (IF remaining > 0 THEN <<remaining>> ELSE <<>>)

\* The roast line of a run that found no files.
NoFilesLine == "No supported files found."

\* An empty dict.
EmptyDict == [cat \in {} |-> 100]

\* The test for files never holds.
no_files_never(files) == FALSE

\* if not files (analyze, line 93)
no_files(files) == files = <<>>

\* Analyzer.analyze(): the results, with the list of the files that the loop
\* went through and the arguments of the calls of the progress callback.
\* self._files_analyzed is read and written: the results carry its new value.
\* The None of ai_roast is the empty dict: its readers take the two alike.
analyze(an, compensated) ==
    LET collected == IF an.target.is_file THEN an.target.entries
                     ELSE collect_files(an)
        detected_lang ==
            IF an.language \notin {None, ""} THEN an.language
            ELSE IF an.target.is_file THEN detect_language(an.target.entries[1])
            ELSE detect_dominant_language(collected)
        results0 == [target |-> an.target, language |-> detected_lang,
                     files_analyzed |-> 0, total_lines |-> 0, issues |-> <<>>,
                     metrics |-> EmptyDict, score |-> 100,
                     category_scores |-> EmptyDict, roast_lines |-> <<>>,
                     ai_roast |-> EmptyDict]
    IN  IF no_files(collected)
        THEN [results |-> [results0 EXCEPT !.roast_lines = <<NoFilesLine>>],
              files |-> <<>>, counter |-> an.files_analyzed, progress |-> <<>>]
        ELSE LET files == truncate(language_filter(collected, detected_lang), an.max_files)
                 done  == analyze_files(files, get_rules_for_language(detected_lang), 1, Len(files))
                 total == an.files_analyzed + done.analyzed
                 category_scores == compute_category_scores(done.all_issues, total)
                 step_size == Max(1, 100 \div Max(Len(files), 1))
             IN  [results |-> [results0 EXCEPT
                                 !.files_analyzed  = total,
                                 !.total_lines     = done.total_lines,
                                 !.issues          = done.all_issues,
                                 !.metrics         = compute_metrics(done.all_issues, total,
                                                                     done.total_lines),
                                 !.score           = compute_overall_score(category_scores,
                                                                           compensated),
                                 !.category_scores = category_scores],
                  files |-> files, counter |-> total,
                  progress |-> IF an.progress_callback
                               THEN progress_calls(step_size, done.analyzed, Len(files))
                               ELSE <<>>]

(***************************************************************************)
(* The Roaster.                                                            *)
(*                                                                         *)
(* What the commentary service does is a reply: _call_api raises with an   *)
(* error text, or returns the content of the message.  A content is text   *)
(* that is not JSON, or a JSON value: an object (a function from keys to   *)
(* values), or a value that is no object (an array, a string).  The canned *)
(* messages are named by their first words.                                *)
(***************************************************************************)

Raised(error) == [raised |-> TRUE, error |-> error, value |-> EmptyDict]

Returned(value) == [raised |-> FALSE, error |-> "", value |-> value]

RawText(text) == [json |-> FALSE, object |-> FALSE, value |-> text]

JsonObject(fields) == [json |-> TRUE, object |-> TRUE, value |-> fields]

JsonValue(value) == [json |-> TRUE, object |-> FALSE, value |-> value]

\* dict.get(key, default)
get(dict, key, default) == IF key \in DOMAIN dict THEN dict[key] ELSE default

\* The message of the except branch of Roaster.roast.
CrashedLine == "The AI roaster itself crashed."

\* Roaster._fallback_roast with every band one point lower: < for <=.
fallback_roast_below(score) ==
    CASE score < 20 -> "This code has more red flags"
      [] score < 40 -> "Your code reads like it was written during a power outage"
      [] score < 60 -> "It works. Probably."
      [] score < 80 -> "Not bad!"
      [] OTHER      -> "Alright, I'll admit it"

\* Roaster._fallback_roast(score)
fallback_roast(score) ==
    CASE score <= 20 -> "This code has more red flags"
      [] score <= 40 -> "Your code reads like it was written during a power outage"
      [] score <= 60 -> "It works. Probably."
      [] score <= 80 -> "Not bad!"
      [] OTHER       -> "Alright, I'll admit it"

\* Roaster._parse_response(response, score): json.loads raises
\* JSONDecodeError on text that is not JSON, which is caught, and data.get
\* raises AttributeError on a value that is no object, which is not.
parse_response(response, score) ==
    IF ~response.json
    THEN Returned([overall  |-> fallback_roast(score),
                   sections |-> <<>>,
                   closing  |-> response.value,
                   verdict  |-> ""])
    ELSE IF ~response.object THEN Raised("object has no attribute 'get'")
    ELSE Returned([overall  |-> get(response.value, "overall", fallback_roast(score)),
                   sections |-> get(response.value, "sections", <<>>),
                   closing  |-> get(response.value, "closing", ""),
                   verdict  |-> get(response.value, "verdict", "")])

\* Roaster._generate_roast(results), the service giving the reply.
generate_roast(results, reply) ==
    IF reply.raised THEN reply
    ELSE parse_response(reply.value, get(results, "score", 0))

\* Roaster.roast(results), the service giving the reply: the results with
\* the key ai_roast set.
roast(results, reply) ==
    [key \in DOMAIN results \cup {"ai_roast"} |->
        IF key = "ai_roast"
        THEN (IF generate_roast(results, reply).raised
              THEN [error    |-> generate_roast(results, reply).error,
                    overall  |-> CrashedLine,
                    sections |-> <<>>]
              ELSE generate_roast(results, reply).value)
        ELSE results[key]]

\* A section of a commentary as the prompt asks for it.
GoodSection ==
    JsonObject([category |-> "style", roast |-> "Tabs and spaces.", tip |-> "Pick one."])

\* The replies of the service: a network error, a timeout, text that is not
\* JSON, a JSON array, an object without "overall", the object that the
\* prompt asks for, and an object whose sections are strings.
Replies ==
    <<Raised("urlopen error"),
      Raised("timed out"),
      Returned(RawText("I cannot help with that.")),
      Returned(JsonValue(<<1>>)),
      Returned(JsonObject([sections |-> <<GoodSection>>])),
      Returned(JsonObject([overall |-> "A roast.", sections |-> <<GoodSection>>,
                           closing |-> "A closing.", verdict |-> "A verdict."])),
      Returned(JsonObject([overall |-> "A roast.", sections |-> <<JsonValue("style")>>]))>>

(***************************************************************************)
(* The state machine of analysis runs.                                     *)
(***************************************************************************)

VARIABLES
    sum_compensated,  \* the build: sum() of floats is compensated (Neumaier
                      \* summation, CPython 3.12 and later) or plain
    self,             \* the fields of the current Analyzer object
    instance,         \* the number of Analyzer objects built so far
    history,          \* the analyze() calls made: [instance, results, files]
    call,             \* the arguments of the function or command under study
    ret,              \* what it returned
    lists             \* the list objects of rules: the RULES of the modules
                      \* and the lists that get_rules_for_language returned

vars == <<sum_compensated, self, instance, history, call, ret, lists>>

\* The longest walk of a directory target.
MaxWalk == 3

\* The largest max_files.
MaxCap == 2

\* The number of analyze() calls of a behaviour.
MaxRuns == 2

\* The number of Analyzer objects of a behaviour.
MaxAnalyzers == 2

Hit(rule_id, line, severity) == [rule_id |-> rule_id, line |-> line, severity |-> severity]

\* The files of the project, top level: a JavaScript file with two hardcoded
\* credentials and an eval, a Python file with a TODO and a bare except, and a
\* clean Python file with an upper-case extension.
TopFiles ==
    {[dirs |-> <<>>, name |-> <<"a", "js">>, lines |-> 3, readable |-> TRUE,
      raises |-> {},
      hits |-> <<Hit("CMN003", 1, "critical"), Hit("CMN003", 2, "critical"),
                 Hit("JS006", 3, "critical")>>],
     [dirs |-> <<>>, name |-> <<"b", "py">>, lines |-> 2, readable |-> TRUE,
      raises |-> {},
      hits |-> <<Hit("CMN002", 1, "info"), Hit("PY004", 2, "high")>>],
     [dirs |-> <<>>, name |-> <<"c", "PY">>, lines |-> 1, readable |-> TRUE,
      raises |-> {},
      hits |-> <<>>]}

\* A file in a directory that the walk ignores by default.
VendorFile ==
    [dirs |-> <<<<"vendor">>>>, name |-> <<"v", "py">>, lines |-> 1, readable |-> TRUE,
     raises |-> {},
     hits |-> <<Hit("CMN003", 1, "critical")>>]

\* The walks of the directory targets: the top-level files in any order, then
\* the files of the subdirectory.
Walks ==
    LET tops == {w \in UNION {[1..k -> TopFiles] : k \in 0..Min(MaxWalk, Cardinality(TopFiles))} :
                    \A i, j \in DOMAIN w : w[i] = w[j] => i = j}
    IN  tops \cup {Append(w, VendorFile) : w \in {v \in tops : Len(v) < MaxWalk}}

\* A target that is a directory with the given walk.
Directory(walk) == [exists |-> TRUE, is_file |-> FALSE, entries |-> walk]

\* A target that is the given file.
SingleFile(file) == [exists |-> TRUE, is_file |-> TRUE, entries |-> <<file>>]

\* A target path at which there is nothing: is_file() is false and os.walk
\* yields nothing.
MissingTarget == [exists |-> FALSE, is_file |-> FALSE, entries |-> <<>>]

Targets ==
    {Directory(w) : w \in Walks} \cup {SingleFile(f) : f \in TopFiles}

\* The --lang values of the model, None being no override; the project has
\* no TypeScript file.
Languages == {None, "python", "javascript", "typescript"}

\* The choices of --lang (cli.py, lines 51-53).
LangChoices == {"python", "javascript", "typescript", "go", "rust", "java", "auto"}

\* A language tag that is not one of the --lang choices.
UnknownTag == "cobol"

\* The --exclude values of the model: none, or "*.js".
ExcludePatterns == {<<>>, <<Star(<<"js">>)>>}

NoCall == [issues |-> <<>>, files_analyzed |-> 0, category_scores |-> EmptyDict]

NoRet == [category_scores |-> EmptyDict, score |-> 100,
          before |-> [category_scores |-> EmptyDict, score |-> 100]]

\* Analyzer.__init__(target, language, max_files, exclude_patterns,
\* progress_callback)
Analyzer(target, language, max_files, exclude_patterns, progress_callback) ==
    [target |-> target, language |-> language, max_files |-> max_files,
     exclude_patterns |-> exclude_patterns, progress_callback |-> progress_callback,
     files_analyzed |-> 0]

Init ==
    /\ sum_compensated \in BOOLEAN
    /\ lists = RULES
    /\ self \in {Analyzer(t, l, m, x, FALSE) :
                    t \in Targets, l \in Languages, m \in 0..MaxCap, x \in ExcludePatterns}
    /\ instance = 1
    /\ history = <<>>
    /\ call = NoCall
    /\ ret = NoRet

\* A call of analyze() on the current Analyzer object.
Analyze ==
    /\ Len(history) < MaxRuns
    /\ \E run \in {analyze(self, sum_compensated)} :
           /\ self' = [self EXCEPT !.files_analyzed = run.counter]
           /\ history' = Append(history, [instance |-> instance,
                                          results  |-> run.results,
                                          files    |-> run.files,
                                          progress |-> run.progress])
    /\ UNCHANGED <<sum_compensated, instance, call, ret, lists>>

\* A new Analyzer object is built with the same arguments, after the current
\* one has been used.
NewAnalyzer ==
    /\ instance < MaxAnalyzers
    /\ history # <<>>
    /\ history[Len(history)].instance = instance
    /\ self' = Analyzer(self.target, self.language, self.max_files, self.exclude_patterns,
                        self.progress_callback)
    /\ instance' = instance + 1
    /\ UNCHANGED <<sum_compensated, history, call, ret, lists>>

Next == Analyze \/ NewAnalyzer

Spec == Init /\ [][Next]_vars

(***************************************************************************)
(* Analysis runs with faults: files that cannot be read, rules whose check *)
(* raises, directories without a supported file and directories with more  *)
(* than 100 files, analyzed with a progress callback.                      *)
(***************************************************************************)

\* The number of files of the largest directory.
MaxMany == 101

\* Analyzer.__init__: max_files: int = 500
DefaultMaxFiles == 500

\* The rules whose check raises on a file that makes rules fail.
FaultyRules == {"CMN003", "PY004"}

\* A file as it is, with read_text failing, or with rules failing on it.
Faults(file) ==
    {file, [file EXCEPT !.readable = FALSE], [file EXCEPT !.raises = FaultyRules]}

\* The walks of the top-level files, each with or without a fault.
FaultWalks ==
    {w \in UNION {[1..k -> UNION {Faults(file) : file \in TopFiles}] :
                     k \in 0..Min(MaxWalk, Cardinality(TopFiles))} :
        \A i, j \in DOMAIN w : w[i].name = w[j].name => i = j}

\* A file without a supported extension.
UnsupportedFile ==
    [dirs |-> <<>>, name |-> <<"README", "md">>, lines |-> 4, readable |-> TRUE,
     raises |-> {}, hits |-> <<>>]

\* A file that the walk ignores by default.
IgnoredFile ==
    [dirs |-> <<>>, name |-> <<"app", "min", "js">>, lines |-> 1, readable |-> TRUE,
     raises |-> {}, hits |-> <<Hit("JS006", 1, "critical")>>]

\* A supported file that "*.js" excludes.
ExcludedFile ==
    [dirs |-> <<>>, name |-> <<"x", "js">>, lines |-> 1, readable |-> TRUE,
     raises |-> {}, hits |-> <<Hit("JS006", 1, "critical")>>]

\* The walks of directories with few or no supported files.
SparseWalks ==
    {<<UnsupportedFile>>, <<IgnoredFile>>, <<ExcludedFile>>, <<VendorFile>>,
     <<UnsupportedFile, IgnoredFile, ExcludedFile, VendorFile>>,
     <<UnsupportedFile, ExcludedFile>>}

\* The walk of a directory of n clean one-line Python files, the first
\* unreadable of which cannot be read.
ManyFiles(n, unreadable) ==
    [k \in 1..n |->
        [dirs |-> <<>>, name |-> <<"m" \o ToString(k), "py">>, lines |-> 1,
         readable |-> k > unreadable, raises |-> {}, hits |-> <<>>]]

\* Walks of a project with files two and three levels down: below vendor/,
\* below src/node_modules/, below pkg.egg-info/, below gen.js/ (a directory
\* that "*.js" matches) and in src/; the top-level Python file comes first
\* or last.
NestedWalks ==
    LET file(dirs, name, rule_id) ==
            [dirs |-> dirs, name |-> name, lines |-> 1, readable |-> TRUE, raises |-> {},
             hits |-> <<Hit(rule_id, 1, "critical")>>]
        below == <<file(<<<<"gen", "js">>, <<"out">>>>, <<"g1", "py">>, "CMN003"),
                   file(<<<<"pkg", "egg-info">>, <<"lib">>>>, <<"v3", "js">>, "JS006"),
                   file(<<<<"src">>>>, <<"s1", "py">>, "PY010"),
                   file(<<<<"src">>, <<"node_modules">>, <<"lib">>>>, <<"v2", "js">>, "JS006"),
                   file(<<<<"vendor">>, <<"pkg">>>>, <<"v1", "js">>, "JS006"),
                   file(<<<<"vendor">>, <<"pkg">>>>, <<"v4", "js">>, "CMN003")>>
        top == CHOOSE f \in TopFiles : f.name = <<"b", "py">>
    IN  {<<top>> \o below, below \o <<top>>}

\* The walk of five Python files with the lowest scores that the rules
\* give: PY006 reports once per file and PY008 at most ten times, so with the
\* baseline of 10 documentation comes to 85 and every other category that
\* has a rule to 0.  The first file has complex functions, hardcoded
\* credentials, bare excepts and single-letter class names as well.
WorstWalk ==
    LET found(rule_id, n, severity) == [k \in 1..n |-> Hit(rule_id, k, severity)]
        file(k, hits) ==
            [dirs |-> <<>>, name |-> <<"w" \o ToString(k), "py">>, lines |-> 40,
             readable |-> TRUE, raises |-> {},
             hits |-> hits \o found("PY006", 1, "low") \o found("PY008", 10, "low")]
    IN  [k \in 1..5 |->
            file(k, IF k = 1
                    THEN found("PY001", 4, "critical") \o found("CMN003", 3, "critical")
                         \o found("PY004", 5, "high") \o found("PY003", 9, "medium")
                    ELSE <<>>)]

\* Files whose text is no Python: a JavaScript file with an eval, and a text
\* file without a supported extension.  PythonSyntaxErrorRule, when it is
\* run on them, reports the first line.
ForeignFiles ==
    {[dirs |-> <<>>, name |-> <<"app", "js">>, lines |-> 2, readable |-> TRUE,
      raises |-> {},
      hits |-> <<Hit("PY010", 1, "critical"), Hit("JS006", 2, "critical")>>],
     [dirs |-> <<>>, name |-> <<"NOTES", "md">>, lines |-> 3, readable |-> TRUE,
      raises |-> {},
      hits |-> <<Hit("PY010", 1, "critical")>>]}

InitFaults ==
    /\ sum_compensated \in BOOLEAN
    /\ lists = RULES
    /\ self \in {Analyzer(Directory(w), None, MaxWalk, <<>>, TRUE) : w \in FaultWalks}
               \cup {Analyzer(Directory(w), l, m, x, TRUE) :
                        w \in SparseWalks, l \in {None, "python"}, m \in {0, MaxCap},
                        x \in ExcludePatterns}
               \cup {Analyzer(Directory(ManyFiles(n, u)), None, DefaultMaxFiles, <<>>, TRUE) :
                        n \in {MaxMany - 1, MaxMany}, u \in 0..2}
               \cup {Analyzer(t, l, MaxWalk, <<>>, TRUE) :
                        t \in {MissingTarget} \cup {Directory(w) : w \in Walks},
                        l \in {UnknownTag}}
               \cup {Analyzer(MissingTarget, l, MaxWalk, <<>>, TRUE) : l \in Languages}
               \cup {Analyzer(SingleFile(f), l, MaxWalk, <<>>, TRUE) :
                        f \in TopFiles \cup {UnsupportedFile}, l \in {None, "javascript"}}
               \cup {Analyzer(Directory(w), None, m, x, TRUE) :
                        w \in NestedWalks, m \in {MaxCap, DefaultMaxFiles},
                        x \in ExcludePatterns}
               \cup {Analyzer(Directory(WorstWalk), l, DefaultMaxFiles, <<>>, TRUE) :
                        l \in {None, "python"}}
               \cup {Analyzer(t, l, DefaultMaxFiles, <<>>, TRUE) :
                        t \in {SingleFile(f) : f \in ForeignFiles}
                               \cup {Directory(<<f, b>>) : f \in ForeignFiles, b \in TopFiles},
                        l \in {None, "auto", "javascript"}}
    /\ instance = 1
    /\ history = <<>>
    /\ call = NoCall
    /\ ret = NoRet

SpecFaults == InitFaults /\ [][Next]_vars

(***************************************************************************)
(* The scoring functions on their own: _compute_category_scores and        *)
(* _compute_overall_score applied to an issue list that grows by one issue *)
(* at a time, with the number of analyzed files fixed.                     *)
(***************************************************************************)

\* The longest issue list.
MaxIssues == 3

\* The largest number of analyzed files.
MaxScoredFiles == 7

\* The issues added: every severity in one category, the two ends in a second
\* one, and a category that the scores do not have.
ScoreIssues ==
    <<[category |-> "style", severity |-> "critical"],
      [category |-> "style", severity |-> "high"],
      [category |-> "style", severity |-> "medium"],
      [category |-> "style", severity |-> "low"],
      [category |-> "style", severity |-> "info"],
      [category |-> "security", severity |-> "critical"],
      [category |-> "security", severity |-> "low"],
      [category |-> "performance", severity |-> "high"]>>

\* The two scoring functions applied to an issue list.
scores(issues, files_analyzed, compensated, before) ==
    LET both(category_scores) ==
            [category_scores |-> category_scores,
             score  |-> compute_overall_score(category_scores, compensated),
             before |-> before]
    IN  both(compute_category_scores(issues, files_analyzed))

InitScore ==
    /\ sum_compensated \in BOOLEAN
    /\ lists = RULES
    /\ self = Analyzer(Directory(<<>>), None, 0, <<>>, FALSE)
    /\ instance = 1
    /\ history = <<>>
    /\ \E n \in {0, MaxScoredFiles - 1, MaxScoredFiles} :
         /\ call = [NoCall EXCEPT !.files_analyzed = n]
         /\ ret = scores(<<>>, n, sum_compensated, NoRet.before)

\* One more issue in the list (the lists are built in the order of
\* ScoreIssues: the penalties are sums over the issues of a list, whatever
\* their order).
AddIssue(k) ==
    /\ Len(call.issues) < MaxIssues
    /\ Len(call.issues) > 0 => \A j \in 1..(k - 1) : call.issues[Len(call.issues)] # ScoreIssues[j]
    /\ call' = [call EXCEPT !.issues = Append(@, ScoreIssues[k])]
    /\ \E after \in {scores(Append(call.issues, ScoreIssues[k]), call.files_analyzed,
                            sum_compensated,
                            [category_scores |-> ret.category_scores, score |-> ret.score])} :
         ret' = after
    /\ UNCHANGED <<sum_compensated, self, instance, history, lists>>

NextScore == \E k \in 1..Len(ScoreIssues) : AddIssue(k)

SpecScore == InitScore /\ [][NextScore]_vars

(***************************************************************************)
(* _compute_overall_score applied to a category-score map that is filled   *)
(* in one entry at a time.                                                 *)
(***************************************************************************)

InitOverall ==
    /\ sum_compensated \in BOOLEAN
    /\ lists = RULES
    /\ self = Analyzer(Directory(<<>>), None, 0, <<>>, FALSE)
    /\ instance = 1
    /\ history = <<>>
    /\ call = NoCall
    /\ ret = [NoRet EXCEPT !.score = compute_overall_score(EmptyDict, sum_compensated)]

\* One more entry in the map.
SetScore(cat, v) ==
    /\ cat \notin DOMAIN call.category_scores
    /\ call' = [call EXCEPT !.category_scores = (cat :> v) @@ @]
    /\ ret' = [ret EXCEPT !.score = compute_overall_score((cat :> v) @@ call.category_scores,
                                                          sum_compensated)]
    /\ UNCHANGED <<sum_compensated, self, instance, history, lists>>

\* Three categories get a score, the others stay missing.
NextOverall ==
    \E cat \in {"complexity", "naming", "documentation"}, v \in {0, 1, 4, 100} :
        SetScore(cat, v)

SpecOverall == InitOverall /\ [][NextOverall]_vars

(***************************************************************************)
(* Roaster.roast on its own, applied to results of every score band, once  *)
(* and again on the results that it returned.                              *)
(***************************************************************************)

\* The number of roast() calls of a behaviour.
MaxRoasts == 2

\* The results handed to roast(): results of an analysis with each of the
\* scores (the ends of the bands of _fallback_roast and their neighbours),
\* and a dict without a score.
RoastResults ==
    {[target |-> "project", language |-> "python", files_analyzed |-> 1,
      total_lines |-> 1, issues |-> <<>>, metrics |-> EmptyDict, score |-> score,
      category_scores |-> EmptyDict, roast_lines |-> <<>>, ai_roast |-> EmptyDict] :
        score \in {0, 19, 20, 21, 39, 40, 41, 59, 60, 61, 79, 80, 81, 100}}
      \cup {[target |-> "project", language |-> "python"]}

InitRoast ==
    /\ sum_compensated \in BOOLEAN
    /\ lists = RULES
    /\ self = Analyzer(Directory(<<>>), None, 0, <<>>, FALSE)
    /\ instance = 1
    /\ history = <<>>
    /\ call \in {[results |-> results] : results \in RoastResults}
    /\ ret = EmptyDict

\* results = roaster.roast(results), the service giving the reply.
Roast(reply) ==
    /\ Len(history) < MaxRoasts
    /\ ret' = roast(call.results, reply)
    /\ call' = [results |-> ret']
    /\ history' = Append(history, [reply |-> reply, before |-> call.results, after |-> ret'])
    /\ UNCHANGED <<sum_compensated, self, instance, lists>>

NextRoast == \E k \in DOMAIN Replies : Roast(Replies[k])

SpecRoast == InitRoast /\ [][NextRoast]_vars

(***************************************************************************)
(* The roast command (cli.py).                                             *)
(*                                                                         *)
(* A command line is [target, lang, output_format, ci, ci_threshold,       *)
(* max_files, exclude].  A run of the command is the record of what the    *)
(* run met (--offline, an API key in the environment, the reply of the     *)
(* commentary service) and of what came of it: whether the command body    *)
(* started, whether it ran to its end, the exit code and the results.      *)
(***************************************************************************)

\* formatter.render(results) returns: the console and the HTML formatter call
\* section.get on every section of a commentary without error, which raises
\* AttributeError on a section that is no object; the JSON formatter dumps
\* the results as they are.
renders(results, output_format) ==
    \/ output_format = "json"
    \/ DOMAIN results.ai_roast = {}
    \/ get(results.ai_roast, "error", "") # ""
    \/ \A k \in DOMAIN results.ai_roast.sections : results.ai_roast.sections[k].object

\* --ci-threshold: default=60
DefaultThreshold == 60

\* A directory with one Python file, whose score is 98.
SmallProject ==
    Directory(<<[dirs |-> <<>>, name |-> <<"b", "py">>, lines |-> 2,
                 readable |-> TRUE, raises |-> {},
                 hits |-> <<Hit("CMN002", 1, "info"), Hit("PY004", 2, "high")>>]>>)

CommandLine(target, lang, output_format, ci, ci_threshold) ==
    [target |-> target, lang |-> lang, output_format |-> output_format, ci |-> ci,
     ci_threshold |-> ci_threshold, max_files |-> DefaultMaxFiles, exclude |-> <<>>]

\* The command lines of the model: on an empty directory or on the small
\* project, with console, JSON or HTML output, without --ci or with --ci and
\* a threshold equal to the score of the small project or one above it; and
\* two that click rejects, one with a path at which there is nothing and one
\* with a --lang that is no choice.
CommandLines ==
    {CommandLine(t, None, f, c[1], c[2]) :
        t \in {Directory(<<>>), SmallProject},
        f \in {"console", "json", "html"},
        c \in {<<FALSE, DefaultThreshold>>, <<TRUE, 98>>, <<TRUE, 99>>}}
      \cup {CommandLine(MissingTarget, None, "console", TRUE, DefaultThreshold),
            CommandLine(SmallProject, UnknownTag, "console", TRUE, DefaultThreshold)}

\* analyzer = Analyzer(...); results = analyzer.analyze() (cli.py, lines
\* 114-122), for each command line and build.
Analyses ==
    [argv \in CommandLines, compensated \in BOOLEAN |->
        analyze(Analyzer(argv.target, argv.lang, argv.max_files, argv.exclude,
                         argv.output_format = "console"),
                compensated)]

\* The exit of the command with <= for <: a score equal to the threshold
\* fails.
ci_exit_code_inclusive(ci, score, ci_threshold) ==
    IF ci /\ score <= ci_threshold THEN 1 ELSE 0

\* The exit of the command after the output (cli.py, lines 163-176):
\* sys.exit(1) in CI mode with a score below the threshold, else the return
\* of the command, which exits with 0.
ci_exit_code(ci, score, ci_threshold) ==
    IF ci /\ score < ci_threshold THEN 1 ELSE 0

\* The output of the command and its exit (cli.py, lines 143-176): an
\* exception that leaves the formatter ends the process with exit code 1.
format_output(argv, analysed, results) ==
    IF ~renders(results, argv.output_format)
    THEN [started |-> TRUE, completed |-> FALSE, exit_code |-> 1,
          analysis |-> analysed.results, results |-> results, counter |-> analysed.counter]
    ELSE [started |-> TRUE, completed |-> TRUE,
          exit_code |-> ci_exit_code(argv.ci, get(results, "score", 0), argv.ci_threshold),
          analysis |-> analysed.results, results |-> results, counter |-> analysed.counter]

\* The commentary step of the command (cli.py, lines 124-141) and what
\* follows it.
ai_roasting(argv, offline, api_key, reply, analysed) ==
    format_output(argv, analysed,
                  IF ~offline /\ api_key THEN roast(analysed.results, reply)
                  ELSE analysed.results)

\* burnbook roast: click rejects a target that does not exist and a --lang
\* that is no choice with exit code 2; else the analysis, the commentary
\* and the output.
roast_command(argv, offline, api_key, reply, compensated) ==
    IF ~argv.target.exists \/ argv.lang \notin LangChoices \cup {None}
    THEN [started |-> FALSE, completed |-> FALSE, exit_code |-> 2,
          analysis |-> EmptyDict, results |-> EmptyDict, counter |-> 0]
    ELSE ai_roasting(argv, offline, api_key, reply, Analyses[argv, compensated])

\* The reply of a service that is not called.
NotCalled == Raised("not called")

InitCli ==
    /\ sum_compensated \in BOOLEAN
    /\ lists = RULES
    /\ self = Analyzer(Directory(<<>>), None, 0, <<>>, FALSE)
    /\ instance = 0
    /\ history = <<>>
    /\ call \in CommandLines
    /\ ret = EmptyDict

\* A run of the command: offline, or without an API key, or with the
\* commentary service giving the reply.
RoastCommand(offline, api_key, reply) ==
    /\ Len(history) < MaxRuns
    /\ (offline \/ ~api_key) <=> reply = NotCalled
    /\ ret' = roast_command(call, offline, api_key, reply, sum_compensated)
    /\ history' = Append(history, [offline |-> offline, api_key |-> api_key,
                                   reply |-> reply, run |-> ret'])
    /\ self' = IF ret'.started
               THEN [Analyzer(call.target, call.lang, call.max_files, call.exclude,
                              call.output_format = "console")
                       EXCEPT !.files_analyzed = ret'.counter]
               ELSE self
    /\ instance' = IF ret'.started THEN instance + 1 ELSE instance
    /\ UNCHANGED <<sum_compensated, call, lists>>

NextCli ==
    \E offline \in BOOLEAN, api_key \in BOOLEAN, k \in 0..Len(Replies) :
        RoastCommand(offline, api_key, IF k = 0 THEN NotCalled ELSE Replies[k])

SpecCli == InitCli /\ [][NextCli]_vars

(***************************************************************************)
(* The rule registry on its own: calls of get_rules_for_language, and      *)
(* callers that change the lists they were given.  call is the language    *)
(* of the last call and ret the list object it returned; a history entry   *)
(* is [language, id, rules, changes], the rules being those of the         *)
(* returned list at the return and the changes those made before the       *)
(* call; instance counts the changes made.                                 *)
(***************************************************************************)

\* The calls of get_rules_for_language in a run.
MaxCalls == 2

\* The changes of returned lists in a run.
MaxChanges == 1

\* The list after the change.
changed(rules, change) ==
    CASE change = "append" -> Append(rules, Rule("XX001", "style"))
      [] change = "pop" -> IF rules = <<>> THEN rules ELSE SubSeq(rules, 1, Len(rules) - 1)
      [] OTHER -> <<>>

InitRules ==
    /\ sum_compensated = FALSE
    /\ lists = RULES
    /\ self = Analyzer(Directory(<<>>), None, 0, <<>>, FALSE)
    /\ instance = 0
    /\ history = <<>>
    /\ call = None
    /\ ret = 0

\* rules = get_rules_for_language(language)
GetRules(language) ==
    /\ Len(history) < MaxCalls
    /\ \E made \in {get_rules_for_language_call(lists, language)} :
          /\ lists' = made.heap
          /\ ret' = made.id
          /\ history' = Append(history, [language |-> language, id |-> made.id,
                                         rules |-> made.heap[made.id],
                                         changes |-> instance])
    /\ call' = language
    /\ UNCHANGED <<sum_compensated, self, instance>>

\* The caller of call i changes the list it was given.
ChangeList(i, change) ==
    /\ instance < MaxChanges
    /\ i \in DOMAIN history
    /\ lists' = [lists EXCEPT ![history[i].id] = changed(@, change)]
    /\ instance' = instance + 1
    /\ UNCHANGED <<sum_compensated, self, history, call, ret>>

NextRules ==
    \/ \E language \in DOMAIN LANGUAGE_EXTENSIONS \cup {"unknown", UnknownTag, None} :
           GetRules(language)
    \/ \E i \in 1..MaxCalls, change \in {"append", "pop", "clear"} : ChangeList(i, change)

SpecRules == InitRules /\ [][NextRules]_vars

(***************************************************************************)
(* The rules on the text of a file.                                        *)
(*                                                                         *)
(* A source is [name, nodes]: the name of a file and its text, a sequence  *)
(* of nodes, one on each line.  A node is [node, arg, n]:                  *)
(*   Assign         arg = "x...x": arg is the target and n the length of   *)
(*                  the string literal, which holds no quote;              *)
(*   FunctionDef    def arg(...): the nodes after it, up to the next       *)
(*                  FunctionDef, are the nodes that ast.walk finds in it;  *)
(*   If, While, For, With, Assert, comprehension, Pass: the statement or   *)
(*                  clause of that class;                                  *)
(*   BoolOp         a chain of n operands of and, or of or;                *)
(*   ExceptHandler  except arg: with a body that is not pass; arg = "" is  *)
(*                  the bare except: and node.type is None;                *)
(*   SyntaxError    a line on which ast.parse raises SyntaxError.          *)
(* The text has nothing else in it: no long line, number, print, tab,      *)
(* marker comment, import, global or short name.                           *)
(***************************************************************************)

Node(node, arg, n) == [node |-> node, arg |-> arg, n |-> n]

\* sub in str
contains(str, sub) ==
    \E i \in 1..(Len(str) - Len(sub) + 1) : SubSeq(str, i, i + Len(sub) - 1) = sub

\* Path.name of a file: its parts with the dots between them.
RECURSIVE file_name(_)
file_name(name) ==
    IF Len(name) = 1 THEN name[1]
    ELSE file_name(SubSeq(name, 1, Len(name) - 1)) \o "." \o name[Len(name)]

\* What a check returns: one finding for each line for which severity_of
\* gives a severity, in line order.
findings(rule_id, nodes, severity_of) ==
    LET flagged(k) == severity_of[k] # None
        lines == SelectSeq([k \in DOMAIN nodes |-> k], flagged)
    IN  [j \in DOMAIN lines |-> Hit(rule_id, lines[j], severity_of[lines[j]])]

\* HardcodedCredentialRule.check (common_rules.py, lines 72-108).  Of its
\* patterns the first four can match an Assign line, (?i)word\s*=\s*
\* followed by a quoted literal of at least so many characters: the target
\* ends with the word, in any case.  The other three need a literal that
\* starts with AKIA or with -----, or the text "bearer".
HardcodedCredentialRule(name, nodes) ==
    LET patterns == <<[words |-> {"password", "passwd", "pwd"}, least |-> 3],
                      [words |-> {"api_key", "apikey", "api-key"}, least |-> 8],
                      [words |-> {"secret", "token", "auth"}, least |-> 8],
                      [words |-> {"aws_access_key", "aws_secret"}, least |-> 8]>>
        endswith(str, word) ==
            /\ Len(str) >= Len(word)
            /\ SubSeq(str, Len(str) - Len(word) + 1, Len(str)) = word
        search(pattern, line) ==
            /\ line.node = "Assign"
            /\ \E word \in pattern.words : endswith(lower(line.arg), word)
            /\ line.n >= pattern.least
        severity_of(k) ==
            IF \E p \in DOMAIN patterns : search(patterns[p], nodes[k])
            THEN "critical" ELSE None
    IN  IF \E x \in {"test", "spec", "example", "sample", ".env.example"} :
               contains(lower(file_name(name)), x)
        THEN <<>>
        ELSE findings("CMN003", nodes, [k \in DOMAIN nodes |-> severity_of(k)])

\* ast.parse(content) returns a tree.
parses(nodes) == \A k \in DOMAIN nodes : nodes[k].node # "SyntaxError"

\* A count that adds 1 for a boolean chain, whatever its operands.
RECURSIVE compute_complexity_chains(_)
compute_complexity_chains(nodes) ==
    IF nodes = <<>> THEN 1
    ELSE compute_complexity_chains(Tail(nodes))
           + (IF Head(nodes).node \in {"If", "While", "For", "ExceptHandler", "With",
                                       "Assert", "comprehension", "BoolOp"}
              THEN 1 ELSE 0)

\* PythonComplexityRule._compute_complexity(node), on the nodes that
\* ast.walk(node) finds.
RECURSIVE compute_complexity(_)
compute_complexity(nodes) ==
    IF nodes = <<>> THEN 1
    ELSE compute_complexity(Tail(nodes))
           + (IF Head(nodes).node \in {"If", "While", "For", "ExceptHandler", "With",
                                       "Assert", "comprehension"}
              THEN 1
              ELSE IF Head(nodes).node = "BoolOp" THEN Head(nodes).n - 1 ELSE 0)

\* PythonComplexityRule.check (python_rules.py, lines 20-45)
PythonComplexityRule(nodes) ==
    LET last(k) == IF \E j \in (k + 1)..Len(nodes) : nodes[j].node = "FunctionDef"
                   THEN (CHOOSE j \in (k + 1)..Len(nodes) :
                            /\ nodes[j].node = "FunctionDef"
                            /\ \A i \in (k + 1)..(j - 1) : nodes[i].node # "FunctionDef") - 1
                   ELSE Len(nodes)
        complexity(k) == compute_complexity(SubSeq(nodes, k + 1, last(k)))
        severity_of(k) ==
            IF nodes[k].node = "FunctionDef" /\ complexity(k) > 10
            THEN (IF complexity(k) > 20 THEN "critical" ELSE "high")
            ELSE None
    IN  IF parses(nodes) THEN findings("PY001", nodes, [k \in DOMAIN nodes |-> severity_of(k)]) ELSE <<>>

\* PythonBareExceptRule.check (python_rules.py, lines 167-189)
PythonBareExceptRule(nodes) ==
    LET severity_of(k) ==
            IF nodes[k].node = "ExceptHandler" /\ nodes[k].arg = "" THEN "high" ELSE None
    IN  IF parses(nodes) THEN findings("PY004", nodes, [k \in DOMAIN nodes |-> severity_of(k)]) ELSE <<>>

\* PythonSyntaxErrorRule.check (python_rules.py, lines 398-416): one issue,
\* on the first line that does not parse.
PythonSyntaxErrorRule(nodes) ==
    LET severity_of(k) ==
            IF /\ nodes[k].node = "SyntaxError"
               /\ \A j \in 1..(k - 1) : nodes[j].node # "SyntaxError"
            THEN "critical" ELSE None
    IN  findings("PY010", nodes, [k \in DOMAIN nodes |-> severity_of(k)])

\* The file of a source: what the checks of the rules find in its text.
SourceFile(source) ==
    [dirs |-> <<>>, name |-> source.name, lines |-> Len(source.nodes), readable |-> TRUE,
     raises |-> {},
     hits |-> HardcodedCredentialRule(source.name, source.nodes)
                \o PythonComplexityRule(source.nodes)
                \o PythonBareExceptRule(source.nodes)
                \o PythonSyntaxErrorRule(source.nodes)]

(***************************************************************************)
(* Runs on single files whose text is given: a file with one assignment of *)
(* a string literal, a function of five conditionals, a loop and a boolean *)
(* chain, or a file of bare except handlers, is analyzed, gets one more    *)
(* bare except handler at its end and is analyzed again.  call is the      *)
(* source as it is on disk; a history entry is [source, results].          *)
(***************************************************************************)

\* The longest literal of an assignment.
MaxLiteral == 14

\* The most operands of a boolean chain.
MaxOperands == 16

\* The most bare except handlers of a file before one is added.
MaxHandlers == 5

\* The sources analyzed first.
Sources ==
    LET assigned ==
            {[name |-> <<stem, "py">>, nodes |-> <<Node("Assign", target, n)>>] :
                stem \in {"app_code", "latest", "test_app", "inspector"},
                target \in {"password", "db_password", "PASSWORD", "password_hint", "token"},
                n \in {2, 3, 8, MaxLiteral}}
        func(loop, k, more) ==
            <<Node("FunctionDef", "complex_func", 0)>>
                \o [i \in 1..5 |-> Node("If", "", 0)]
                \o <<Node(loop, "", 0), Node("BoolOp", "", k)>>
                \o (IF more = "" THEN <<>> ELSE <<Node(more, "ValueError", 0)>>)
        functions ==
            {[name |-> <<"main", "py">>, nodes |-> func(loop, k, more)] :
                loop \in {"For", "While"}, k \in 2..MaxOperands,
                more \in {"", "With", "Assert", "comprehension", "ExceptHandler", "Pass"}}
        handlers ==
            {[name |-> <<"svc", "py">>,
              nodes |-> first \o [i \in 1..b |-> Node("ExceptHandler", "", 0)]] :
                first \in {<<>>, <<Node("SyntaxError", "", 0)>>,
                           <<Node("ExceptHandler", "ValueError", 0)>>},
                b \in 0..MaxHandlers}
    IN  assigned \cup functions \cup handlers

InitSource ==
    /\ sum_compensated \in BOOLEAN
    /\ lists = RULES
    /\ call \in Sources
    /\ self = Analyzer(SingleFile(SourceFile(call)), None, DefaultMaxFiles, <<>>, FALSE)
    /\ instance = 1
    /\ history = <<>>
    /\ ret = NoRet

\* Analyzer(target=file).analyze() on the file as it is now.
AnalyzeSource ==
    /\ Len(history) < MaxRuns
    /\ history # <<>> => history[Len(history)].source # call
    /\ \E run \in {analyze(self, sum_compensated)} :
           /\ self' = [self EXCEPT !.files_analyzed = run.counter]
           /\ history' = Append(history, [source |-> call, results |-> run.results])
    /\ UNCHANGED <<sum_compensated, instance, call, ret, lists>>

\* The file that was analyzed gets one more bare except handler, at its end.
AddBareExcept ==
    /\ Len(history) < MaxRuns
    /\ history # <<>> /\ history[Len(history)].source = call
    /\ call' = [call EXCEPT !.nodes = Append(@, Node("ExceptHandler", "", 0))]
    /\ self' = Analyzer(SingleFile(SourceFile(call')), None, DefaultMaxFiles, <<>>, FALSE)
    /\ instance' = instance + 1
    /\ UNCHANGED <<sum_compensated, history, ret, lists>>

NextSource == AnalyzeSource \/ AddBareExcept

SpecSource == InitSource /\ [][NextSource]_vars

(***************************************************************************)
(* Properties.                                                             *)
(***************************************************************************)

\* C1: in the results of every analyze() call, every category score and the
\* overall score is an integer between 0 and 100.
C1_ScoresInRange ==
    \A i \in DOMAIN history :
        /\ history[i].results.score \in 0..100
        /\ \A cat \in DOMAIN history[i].results.category_scores :
               history[i].results.category_scores[cat] \in 0..100

\* A run whose security penalty (45 on a baseline of 10) is clamped to the
\* score 0 while the overall score lies strictly between the ends.
C1_Witness ==
    \E i \in DOMAIN history :
        /\ DOMAIN history[i].results.category_scores = CategorySet
        /\ history[i].results.category_scores["security"] = 0
        /\ history[i].results.score \in 1..99

\* C2: _compute_category_scores gives each of the 8 categories the score
\* clamp(0, 100, 100 - floor(penalty * 30 / baseline)), the penalty being
\* 15 per critical, 8 per high, 4 per medium, 1 per low and 0 per info issue
\* of the category and the baseline max(2 * files_analyzed, 10); a category
\* without issues scores 100.
C2_CategoryScoreFormula ==
    LET count(cat, sev) ==
            Cardinality({k \in DOMAIN call.issues :
                            call.issues[k].category = cat /\ call.issues[k].severity = sev})
        penalty(cat) ==
            15 * count(cat, "critical") + 8 * count(cat, "high")
              + 4 * count(cat, "medium") + count(cat, "low")
        base == IF 2 * call.files_analyzed > 10 THEN 2 * call.files_analyzed ELSE 10
        expected(cat) ==
            IF (penalty(cat) * 30) \div base > 100 THEN 0
            ELSE 100 - (penalty(cat) * 30) \div base
    IN  /\ DOMAIN ret.category_scores = CategorySet
        /\ \A cat \in CategorySet :
               /\ ret.category_scores[cat] = expected(cat)
               /\ penalty(cat) = 0 => ret.category_scores[cat] = 100

\* One high issue of style with 7 files analyzed: 100 - floor(240 / 14) = 83,
\* beside a category without issues.
C2_Witness ==
    /\ call.files_analyzed = MaxScoredFiles
    /\ call.issues = <<[category |-> "style", severity |-> "high"]>>
    /\ ret.category_scores["style"] < 100
    /\ ret.category_scores["style"] > 80
    /\ ret.category_scores["naming"] = 100

\* C3: _compute_overall_score returns the weighted average of the 8 category
\* scores with the weights 20, 20, 15, 10, 10, 10, 10 and 5 percent, a missing
\* category counting as 100, clamped to [0, 100] and truncated to an integer.
C3_OverallIsWeightedAverage ==
    LET percent == [complexity |-> 20, security |-> 20, duplication |-> 15,
                    naming |-> 10, documentation |-> 10, dead_code |-> 10,
                    testing |-> 10, style |-> 5]
        value(cat) == IF cat \in DOMAIN call.category_scores
                      THEN call.category_scores[cat] ELSE 100
        average == (percent.complexity * value("complexity")
                      + percent.security * value("security")
                      + percent.duplication * value("duplication")
                      + percent.naming * value("naming")
                      + percent.documentation * value("documentation")
                      + percent.dead_code * value("dead_code")
                      + percent.testing * value("testing")
                      + percent.style * value("style")) \div 100
    IN  ret.score = (IF average > 100 THEN 100 ELSE IF average < 0 THEN 0 ELSE average)

\* C4: a run that detects no issue in any file it analyzes gives every
\* category the score 100 and the overall score 100, whatever the number of
\* files analyzed.
C4_NoIssuesScore100 ==
    \A i \in DOMAIN history :
        Len(history[i].results.issues) = 0 =>
            /\ history[i].results.score = 100
            /\ \A cat \in DOMAIN history[i].results.category_scores :
                   history[i].results.category_scores[cat] = 100

\* A run that analyzed a file, found nothing and scored all 8 categories.
C4_Witness ==
    \E i \in DOMAIN history :
        /\ Len(history[i].files) > 0
        /\ history[i].results.files_analyzed > 0
        /\ Len(history[i].results.issues) = 0
        /\ DOMAIN history[i].results.category_scores = CategorySet
        /\ history[i].results.score = 100

\* C5: with the number of analyzed files fixed, one more issue never raises
\* the score of a category nor the overall score, and one more critical issue
\* in a category leaves its score at or below the score that one more low
\* issue leaves.
C5_Monotone ==
    /\ ret.score <= ret.before.score
    /\ \A cat \in DOMAIN ret.before.category_scores :
           ret.category_scores[cat] <= ret.before.category_scores[cat]
    /\ \A cat \in CategorySet :
           compute_category_scores(
               Append(call.issues, [category |-> cat, severity |-> "critical"]),
               call.files_analyzed)[cat]
             <= compute_category_scores(
                    Append(call.issues, [category |-> cat, severity |-> "low"]),
                    call.files_analyzed)[cat]

\* A critical issue was added to a list that had an issue: the score of its
\* category and the overall score both fell.
C5_Witness ==
    /\ Len(call.issues) > 1
    /\ call.issues[Len(call.issues)] = [category |-> "security", severity |-> "critical"]
    /\ ret.category_scores["security"] < ret.before.category_scores["security"]
    /\ ret.score < ret.before.score

\* C6: re-analyzing an unchanged file set with the same parameters gives the
\* same issue list, files-analyzed count, category scores and overall score,
\* with a fresh Analyzer for the second run and with a second analyze() call
\* on the same Analyzer.
C6_Idempotent ==
    \A i, j \in DOMAIN history :
        /\ history[i].results.issues = history[j].results.issues
        /\ history[i].results.files_analyzed = history[j].results.files_analyzed
        /\ history[i].results.category_scores = history[j].results.category_scores
        /\ history[i].results.score = history[j].results.score

\* C7: for a directory target with N candidates (the files that pass the
\* extension, ignore-list, exclusion and effective-language filters, in
\* traversal order) and a cap K with 1 <= K < N, exactly the first K
\* candidates are analyzed.
C7_CapTakesFirstCandidates ==
    \A i \in DOMAIN history :
        LET candidate(file) ==
                /\ ~pruned(self, file)
                /\ ~is_excluded(self, file.dirs, file.name)
                /\ ~\E pat \in DEFAULT_IGNORE_FILES : fnmatch(file.name, pat)
                /\ lower(suffix(file.name)) \in DOMAIN ALL_SUPPORTED_EXTENSIONS
                /\ history[i].results.language \in DOMAIN LANGUAGE_EXTENSIONS =>
                       lower(suffix(file.name))
                           \in LANGUAGE_EXTENSIONS[history[i].results.language]
            candidates == SelectSeq(self.target.entries, candidate)
        IN  (/\ ~self.target.is_file
             /\ 1 <= self.max_files
             /\ self.max_files < Len(candidates))
            => history[i].files = SubSeq(candidates, 1, self.max_files)

\* C8: in the results of every analyze() call, for a file or a directory
\* target and any max_files >= 0, files_analyzed <= max_files.
C8_FilesAnalyzedWithinCap ==
    \A i \in DOMAIN history : history[i].results.files_analyzed <= self.max_files

\* C9: a file whose name or path matches an exclusion pattern is never
\* analyzed: it is not among the files of a run, no issue is reported in it
\* and, when it is itself the target, nothing is counted or read.
C9_ExcludedNeverAnalyzed ==
    \A i \in DOMAIN history :
        \A k \in DOMAIN self.target.entries :
            is_excluded(self, self.target.entries[k].dirs, self.target.entries[k].name) =>
                /\ \A j \in DOMAIN history[i].files :
                       history[i].files[j] # self.target.entries[k]
                /\ \A j \in DOMAIN history[i].results.issues :
                       history[i].results.issues[j].file # path_of(self.target.entries[k])
                /\ self.target.is_file =>
                       /\ history[i].results.files_analyzed = 0
                       /\ history[i].results.total_lines = 0

\* C10: with an explicit language override L of the six languages for a
\* directory, every analyzed file, and so the file of every reported issue,
\* has one of the extensions of L (compared in lower case, as the filter
\* compares them).
C10_OverrideFiltersLanguage ==
    (~self.target.is_file /\ self.language \in DOMAIN LANGUAGE_EXTENSIONS) =>
        \A i \in DOMAIN history :
            /\ \A k \in DOMAIN history[i].files :
                   lower(suffix(history[i].files[k].name))
                       \in LANGUAGE_EXTENSIONS[self.language]
            /\ \A j \in DOMAIN history[i].results.issues :
                   \E k \in DOMAIN history[i].files :
                       /\ history[i].results.issues[j].file = path_of(history[i].files[k])
                       /\ lower(suffix(history[i].files[k].name))
                              \in LANGUAGE_EXTENSIONS[self.language]

\* A directory with one JavaScript file and two Python files, analyzed with
\* the override javascript: the JavaScript file alone is analyzed and issues
\* are reported in it.
C10_Witness ==
    /\ ~self.target.is_file
    /\ self.language = "javascript"
    /\ Cardinality({k \in DOMAIN self.target.entries :
                       lower(suffix(self.target.entries[k].name)) = ".py"}) = 2
    /\ \E i \in DOMAIN history :
           /\ Len(history[i].files) = 1
           /\ history[i].files[1].name = <<"a", "js">>
           /\ Len(history[i].results.issues) > 0

\* C11: when a rule raises on a file the run goes on: in every result, for
\* every file that was read and every rule of the run, the issues of that
\* rule in that file are none if the rule raises on the file and all of the
\* rule's findings if it does not; total_lines is the sum of the lines of the
\* files that were read and files_analyzed grows by their number, the files
\* on which a rule raises included.
C11_RuleFailureIsolated ==
    \A i \in DOMAIN history :
        LET files  == history[i].files
            res    == history[i].results
            rules  == get_rules_for_language(res.language)
            of(file, rule) ==
                LET found(issue) == issue.file = path_of(file) /\ issue.rule_id = rule.rule_id
                IN  SelectSeq(res.issues, found)
            read(j) == {k \in DOMAIN history[j].files : history[j].files[k].readable}
            before == {<<j, k>> \in (1..(i - 1)) \X (1..MaxMany) :
                          history[j].instance = history[i].instance /\ k \in read(j)}
        IN  files # <<>> =>
              /\ \A k \in read(i) : \A r \in DOMAIN rules :
                     of(files[k], rules[r]) =
                         IF rules[r].rule_id \in files[k].raises THEN <<>>
                         ELSE check(rules[r], files[k], 1)
              /\ res.total_lines =
                     Cardinality(UNION {{<<k, n>> : n \in 1..files[k].lines} : k \in read(i)})
              /\ res.files_analyzed = Cardinality(before) + Cardinality(read(i))

\* A JavaScript file on which the credentials rule raises and in which the
\* rule would have found something was analyzed: the finding of the eval
\* rule in it is reported and the file is counted with its lines.
C11_Witness ==
    \E i \in DOMAIN history : \E k \in DOMAIN history[i].files :
        LET file == history[i].files[k]
            res  == history[i].results
        IN  /\ file.readable
            /\ "CMN003" \in file.raises
            /\ \E h \in DOMAIN file.hits : file.hits[h].rule_id = "CMN003"
            /\ \E j \in DOMAIN res.issues :
                   res.issues[j].file = path_of(file) /\ res.issues[j].rule_id = "JS006"
            /\ res.files_analyzed >= 1
            /\ res.total_lines >= file.lines

\* C12: a file that cannot be read does not end the run: in every result no
\* issue is reported in it, total_lines and files_analyzed count the files
\* that were read and no other, and for every file after it that was read
\* the findings of the rules of the run in that file are reported.
C12_ReadFailureSkipped ==
    \A i \in DOMAIN history :
        LET files  == history[i].files
            res    == history[i].results
            rules  == get_rules_for_language(res.language)
            in(file) == LET here(issue) == issue.file = path_of(file)
                        IN  SelectSeq(res.issues, here)
            unread == {k \in DOMAIN files : ~files[k].readable}
            earlier == {<<j, k>> \in (1..(i - 1)) \X (1..MaxMany) :
                           /\ history[j].instance = history[i].instance
                           /\ k \in DOMAIN history[j].files
                           /\ history[j].files[k].readable}
        IN  (files # <<>> /\ unread # {}) =>
              /\ \A k \in unread : in(files[k]) = <<>>
              /\ \A k \in unread : \A n \in DOMAIN files :
                     (n > k /\ files[n].readable) =>
                         in(files[n]) = check_rules(rules, files[n], 1)
              /\ res.files_analyzed = Cardinality(earlier) + Len(files) - Cardinality(unread)
              /\ \A k \in unread :
                     LET others == [n \in 1..(Len(files) - 1) |->
                                       IF n < k THEN files[n] ELSE files[n + 1]]
                     IN  res.total_lines = analyze_files(others, rules, 1, Len(others)).total_lines

\* A directory whose first Python file cannot be read and whose second has
\* findings: the findings of the second are reported and one file is counted.
C12_Witness ==
    \E i \in DOMAIN history :
        LET files == history[i].files
            res   == history[i].results
        IN  /\ Len(files) = 2
            /\ ~files[1].readable
            /\ files[2].readable
            /\ \E j \in DOMAIN res.issues : res.issues[j].file = path_of(files[2])
            /\ res.files_analyzed = 1
            /\ res.total_lines = files[2].lines

\* C13: when a directory holds no candidate (every file of its walk is below
\* an ignored or excluded directory, is excluded, is ignored or has no
\* supported extension), every analyze() returns the fixed result:
\* files_analyzed = 0, total_lines = 0, no issue, score 100 and the "no
\* supported files" line, with no file taken through the rules and no
\* category score computed.
C13_NoFilesResult ==
    LET candidate(file) ==
            /\ ~pruned(self, file)
            /\ ~is_excluded(self, file.dirs, file.name)
            /\ ~\E pat \in DEFAULT_IGNORE_FILES : fnmatch(file.name, pat)
            /\ lower(suffix(file.name)) \in DOMAIN ALL_SUPPORTED_EXTENSIONS
    IN  (/\ ~self.target.is_file
         /\ \A k \in DOMAIN self.target.entries : ~candidate(self.target.entries[k])) =>
            \A i \in DOMAIN history :
                /\ history[i].results.files_analyzed = 0
                /\ history[i].results.total_lines = 0
                /\ history[i].results.issues = <<>>
                /\ history[i].results.score = 100
                /\ history[i].results.roast_lines = <<NoFilesLine>>
                /\ history[i].results.category_scores = EmptyDict
                /\ history[i].files = <<>>

\* A directory with an unsupported file, an ignored file, an excluded file
\* and a file in an ignored directory was analyzed twice and the fixed
\* result came back both times.
C13_Witness ==
    /\ Len(self.target.entries) = 4
    /\ self.exclude_patterns # <<>>
    /\ Len(history) = 2
    /\ \A i \in DOMAIN history :
           /\ history[i].results.roast_lines = <<NoFilesLine>>
           /\ history[i].results.files_analyzed = 0

\* C14: an Analyzer built with a language tag outside the --lang choices or
\* with a target path at which there is nothing returns no analysis result:
\* no analyze() call on it comes back with results.
C14_InvalidConfigurationSurfaced ==
    (\/ self.language \notin LangChoices \cup {None}
     \/ ~self.target.exists) =>
        history = <<>>

\* C15: every run of the roast command that runs to its end (click did not
\* reject the command line and no exception ended it) exits with code 1 if
\* --ci is set and the final score is strictly below --ci-threshold, and
\* with code 0 if not: without --ci, or with a score at or above the
\* threshold, as for an empty directory.
C15_CiExitCode ==
    \A i \in DOMAIN history :
        history[i].run.completed =>
            /\ history[i].run.exit_code \in {0, 1}
            /\ history[i].run.exit_code = 1 <=>
                   (call.ci /\ history[i].run.results.score < call.ci_threshold)
            /\ call.target.entries = <<>> => history[i].run.exit_code = 0

\* The small project, whose score is 98, was roasted twice with --ci and a
\* threshold of 99, offline and with a commentary: both runs ran to their
\* end and exited with code 1.
C15_Witness ==
    /\ call.ci /\ call.ci_threshold = 99
    /\ Len(history) = 2
    /\ history[1].offline /\ ~history[2].offline /\ history[2].api_key
    /\ \A i \in DOMAIN history :
           /\ history[i].run.completed
           /\ history[i].run.results.score = 98
           /\ history[i].run.exit_code = 1

\* C16: the runs of one command line have the same analysis result and the
\* same CI outcome whatever the commentary was (none, a good one, a failed
\* one): target, language, files_analyzed, total_lines, issues, metrics,
\* category_scores and score are equal, and so is the exit code.
C16_CommentaryChangesNothing ==
    \A i, j \in DOMAIN history :
        (history[i].run.started /\ history[j].run.started) =>
            /\ \A key \in {"target", "language", "files_analyzed", "total_lines", "issues",
                            "metrics", "category_scores", "score"} :
                   history[i].run.results[key] = history[j].run.results[key]
            /\ history[i].run.exit_code = history[j].run.exit_code

\* C17 as stated: roast() returns, and after every commentary failure (the
\* service raises, its content is not JSON, or its content is JSON but no
\* object, or an object without "overall") ai_roast holds the canned message
\* of the band of the score: <= 20, <= 40, <= 60, <= 80, above.
C17_FallbackByScoreBand ==
    \A i \in DOMAIN history :
        LET reply == history[i].reply
            score == get(history[i].before, "score", 0)
            band  == 1 + Cardinality({limit \in {20, 40, 60, 80} : score > limit})
            lines == <<"This code has more red flags",
                       "Your code reads like it was written during a power outage",
                       "It works. Probably.", "Not bad!", "Alright, I'll admit it">>
        IN  (\/ reply.raised
             \/ ~reply.value.json
             \/ ~reply.value.object
             \/ "overall" \notin DOMAIN reply.value.value) =>
                history[i].after.ai_roast.overall = lines[band]

\* C17, amended: roast() returns; when the content of the reply is not JSON,
\* or is a JSON object without "overall", ai_roast.overall is the canned
\* message of the band of the score (<= 20, <= 40, <= 60, <= 80, above); when
\* the service raises or the content is JSON but no object, ai_roast holds
\* the error text and the one "roaster crashed" message, whatever the score.
C17_FallbackOrCrashedLine ==
    \A i \in DOMAIN history :
        LET reply == history[i].reply
            score == get(history[i].before, "score", 0)
            band  == 1 + Cardinality({limit \in {20, 40, 60, 80} : score > limit})
            lines == <<"This code has more red flags",
                       "Your code reads like it was written during a power outage",
                       "It works. Probably.", "Not bad!", "Alright, I'll admit it">>
            crashed == reply.raised \/ (reply.value.json /\ ~reply.value.object)
        IN  /\ crashed =>
                  /\ history[i].after.ai_roast.overall = "The AI roaster itself crashed."
                  /\ history[i].after.ai_roast.error # ""
                  /\ reply.raised => history[i].after.ai_roast.error = reply.error
            /\ (~crashed /\ (~reply.value.json
                               \/ "overall" \notin DOMAIN reply.value.value)) =>
                  /\ history[i].after.ai_roast.overall = lines[band]
                  /\ "error" \notin DOMAIN history[i].after.ai_roast

\* Results with a score of 20 were roasted twice: the service answered with
\* text that is not JSON and the message of the lowest band came back, then
\* the service timed out and the "roaster crashed" message came back.
C17_Witness ==
    /\ Len(history) = 2
    /\ get(history[1].before, "score", 0) = 20
    /\ ~history[1].reply.raised /\ ~history[1].reply.value.json
    /\ history[1].after.ai_roast.overall = "This code has more red flags"
    /\ history[2].reply.raised
    /\ history[2].after.ai_roast.overall = CrashedLine

\* C18: for every analyze() call made with a progress callback that has
\* returned, the increments passed to the callback add up to at least 100.
C18_ProgressReaches100 ==
    \A i \in DOMAIN history :
        LET progress == history[i].progress
            total == Cardinality(UNION {{<<k, n>> : n \in 1..progress[k]} :
                                           k \in DOMAIN progress})
        IN  self.progress_callback => total >= 100

\* C19: the language of every result is the override when one is given;
\* without an override, for a file target, the language of the extension of
\* the file, or "unknown" when the extension belongs to no language; without
\* an override, for a directory, a language that no other language exceeds
\* in the number of discovered candidates with its extensions, or "unknown"
\* when there is no candidate.
C19_EffectiveLanguage ==
    \A i \in DOMAIN history :
        LET language == history[i].results.language
            ext(file) == lower(suffix(file.name))
            discovered == collect_files(self)
            count(lang) == Cardinality({k \in DOMAIN discovered :
                                           ext(discovered[k]) \in LANGUAGE_EXTENSIONS[lang]})
        IN  IF self.language # None THEN language = self.language
            ELSE IF self.target.is_file
            THEN \/ /\ language \in DOMAIN LANGUAGE_EXTENSIONS
                    /\ ext(self.target.entries[1]) \in LANGUAGE_EXTENSIONS[language]
                 \/ /\ language = "unknown"
                    /\ \A lang \in DOMAIN LANGUAGE_EXTENSIONS :
                           ext(self.target.entries[1]) \notin LANGUAGE_EXTENSIONS[lang]
            ELSE \/ /\ language \in DOMAIN LANGUAGE_EXTENSIONS
                    /\ count(language) > 0
                    /\ \A lang \in DOMAIN LANGUAGE_EXTENSIONS : count(language) >= count(lang)
                 \/ /\ language = "unknown"
                    /\ \A lang \in DOMAIN LANGUAGE_EXTENSIONS : count(lang) = 0

\* A directory whose walk meets a JavaScript file and then two Python files,
\* one with an upper-case extension, was analyzed without override: all
\* three were discovered and the language of the result is python.
C19_Witness ==
    /\ ~self.target.is_file
    /\ self.language = None
    /\ Len(collect_files(self)) = 3
    /\ lower(suffix(self.target.entries[1].name)) = ".js"
    /\ \E i \in DOMAIN history : history[i].results.language = "python"

\* C20: every call of get_rules_for_language returned the common rules in
\* their order followed by the rules of the language asked for (those of
\* javascript for typescript) or, for "unknown", any other tag and no
\* language, by the rules of python, javascript, go, rust and java in this
\* order; two calls for the same language returned equal sequences, whatever
\* was done to the returned lists in between; and the RULES of the modules
\* are what they were at the import.
C20_RulesForLanguage ==
    LET of_language ==
            [python |-> python_rules, javascript |-> javascript_rules,
             typescript |-> javascript_rules, go |-> go_rules, rust |-> rust_rules,
             java |-> java_rules]
        expected(language) ==
            IF language \in DOMAIN of_language
            THEN common_rules \o of_language[language]
            ELSE common_rules \o python_rules \o javascript_rules \o go_rules
                     \o rust_rules \o java_rules
    IN  /\ \A i \in DOMAIN history :
              /\ history[i].rules = expected(history[i].language)
              /\ history[i].rules = get_rules_for_language(history[i].language)
        /\ \A i, j \in DOMAIN history :
              history[i].language = history[j].language => history[i].rules = history[j].rules
        /\ \A k \in DOMAIN RULES : lists[k] = RULES[k]

\* A list returned for python was cleared by its caller, and the call for
\* python after that returned the eighteen rules again.
C20_Witness ==
    /\ Len(history) = 2
    /\ history[1].language = "python" /\ history[2].language = "python"
    /\ lists[history[1].id] = <<>>
    /\ instance = 1 /\ history[2].changes = 1
    /\ Len(lists[history[2].id]) = 18
    /\ history[2].rules = lists[history[2].id]

\* C21: in the results of every analyze() call, the 'no files' result
\* included, category_scores maps exactly the 8 categories, each to an
\* integer between 0 and 100.
C21_EightCategoryScores ==
    \A i \in DOMAIN history :
        /\ DOMAIN history[i].results.category_scores = CategorySet
        /\ \A cat \in CategorySet : history[i].results.category_scores[cat] \in 0..100

\* C22: when the target is a single readable file, the first analyze() of an
\* Analyzer built without a language override takes exactly that file
\* through the rules and reports files_analyzed = 1, whatever max_files is.
C22_SingleFileWhateverCap ==
    (/\ self.target.is_file
     /\ self.target.entries[1].readable
     /\ self.language = None) =>
        \A i \in DOMAIN history :
            (\A j \in 1..(i - 1) : history[j].instance # history[i].instance) =>
                /\ history[i].files = self.target.entries
                /\ history[i].results.files_analyzed = 1

\* C23: a file whose name has none of the words test, spec, example and
\* sample (the words of a name being what "_" and "." separate) and whose
\* text is only the assignment of a string literal of at least 3 characters
\* to password, db_password or PASSWORD, analyzed on its own, yields an
\* issue of category security and severity critical and a score below 100.
C23_HardcodedPasswordFound ==
    \A i \in DOMAIN history :
        LET source == history[i].source
            worded == "_" \o file_name(<<source.name[1]>>) \o "_"
            suggests_test ==
                \E word \in {"test", "spec", "example", "sample"} :
                    contains(worded, "_" \o word \o "_")
        IN  (/\ ~suggests_test
             /\ Len(source.nodes) = 1
             /\ source.nodes[1].node = "Assign"
             /\ source.nodes[1].arg \in {"password", "db_password", "PASSWORD"}
             /\ source.nodes[1].n >= 3) =>
                /\ \E k \in DOMAIN history[i].results.issues :
                       /\ history[i].results.issues[k].category = "security"
                       /\ history[i].results.issues[k].severity = "critical"
                /\ history[i].results.score < 100

(* C24: of two single-file runs on files that are identical except that    *)
(* the second has one more bare exception handler, the run on the file     *)
(* with the handler has the strictly lower style category score, whatever  *)
(* other style issues both files have.                                     *)
C24_BareExceptLowersStyle ==
    \A i \in DOMAIN history : \A j \in DOMAIN history :
        (/\ history[j].source.name = history[i].source.name
         /\ history[j].source.nodes =
                Append(history[i].source.nodes, Node("ExceptHandler", "", 0))) =>
            history[j].results.category_scores["style"] <
                history[i].results.category_scores["style"]

(* C25: a Python function with five nested conditionals, one loop and one  *)
(* boolean chain of k >= 2 operands yields exactly one issue of the        *)
(* complexity rule, of severity high, or critical when the count           *)
(* 1 + 5 + 1 + (k - 1) is past the stricter threshold of 20.               *)
C25_OneComplexityIssue ==
    \A i \in DOMAIN history :
        LET nodes == history[i].source.nodes
            found == SelectSeq(history[i].results.issues,
                               LAMBDA issue : issue.rule_id = "PY001")
        IN  (/\ Len(nodes) = 8
             /\ nodes[1].node = "FunctionDef"
             /\ \A k \in 2..6 : nodes[k].node = "If"
             /\ nodes[7].node \in {"For", "While"}
             /\ nodes[8].node = "BoolOp" /\ nodes[8].n >= 2) =>
                /\ Len(found) = 1
                /\ found[1].category = "complexity"
                /\ found[1].severity =
                       IF 6 + nodes[8].n > 20 THEN "critical" ELSE "high"

(* C25, as the code has it: the function of C25, possibly with one more    *)
(* statement, has the count 1 + 1 per conditional, loop, handler, resource *)
(* scope, assert and comprehension + (k - 1); it yields exactly one issue  *)
(* of the complexity rule when the count is above 10 (high up to 20,       *)
(* critical above) and none when the count is 10 or less.                  *)
C25_IssueAboveThreshold ==
    \A i \in DOMAIN history :
        LET nodes == history[i].source.nodes
            found == SelectSeq(history[i].results.issues,
                               LAMBDA issue : issue.rule_id = "PY001")
            counted == {k \in DOMAIN nodes :
                          nodes[k].node \in {"If", "While", "For", "ExceptHandler",
                                             "With", "Assert", "comprehension"}}
            count == 1 + Cardinality(counted) + (nodes[8].n - 1)
        IN  (/\ Len(nodes) >= 8
             /\ nodes[1].node = "FunctionDef"
             /\ \A k \in 2..6 : nodes[k].node = "If"
             /\ nodes[7].node \in {"For", "While"}
             /\ nodes[8].node = "BoolOp" /\ nodes[8].n >= 2
             /\ \A k \in 9..Len(nodes) : nodes[k].node \notin {"BoolOp", "FunctionDef"}) =>
                IF count > 10
                THEN /\ Len(found) = 1
                     /\ found[1].category = "complexity"
                     /\ found[1].severity = IF count > 20 THEN "critical" ELSE "high"
                ELSE found = <<>>

C25_Witness ==
    \E i \in DOMAIN history : \E j \in DOMAIN history :
        /\ Len(history[i].source.nodes) = 8
        /\ history[i].source.nodes[8] = Node("BoolOp", "", 4)
        /\ \A k \in DOMAIN history[i].results.issues :
               history[i].results.issues[k].rule_id # "PY001"
        /\ history[j].source.nodes =
               Append(history[i].source.nodes, Node("ExceptHandler", "", 0))
        /\ \E k \in DOMAIN history[j].results.issues :
               /\ history[j].results.issues[k].rule_id = "PY001"
               /\ history[j].results.issues[k].severity = "high"

(* C26: the category scores, the overall score, files_analyzed and         *)
(* total_lines of a run do not depend on the order of its files: the loop  *)
(* over any permutation of the analyzed files gives the same counters and  *)
(* the same category scores as the run, and the overall score of the run   *)
(* is the one of these category scores.                                    *)
C26_OrderIndependent ==
    \A i \in DOMAIN history :
        LET files == history[i].files
            results == history[i].results
            before == IF \E j \in 1..(i - 1) : history[j].instance = history[i].instance
                      THEN history[i - 1].results.files_analyzed ELSE 0
            rules == get_rules_for_language(results.language)
        IN  (Len(files) >= 2 /\ Len(files) <= MaxWalk + 1) =>
                /\ results.score =
                       compute_overall_score(results.category_scores, sum_compensated)
                /\ \A p \in [DOMAIN files -> DOMAIN files] :
                       (\A a, b \in DOMAIN files : p[a] = p[b] => a = b) =>
                           \E done \in {analyze_files([k \in DOMAIN files |-> files[p[k]]],
                                                      rules, 1, Len(files))} :
                               /\ before + done.analyzed = results.files_analyzed
                               /\ done.total_lines = results.total_lines
                               /\ compute_category_scores(done.all_issues,
                                                          before + done.analyzed)
                                      = results.category_scores

C26_Witness ==
    \E i \in DOMAIN history :
        /\ Len(history[i].files) = 3
        /\ \A k \in 1..3 : history[i].files[k].readable
        /\ history[i].files[1].lines # history[i].files[3].lines
        /\ history[i].results.total_lines = 6
        /\ history[i].results.category_scores["security"] < 100
        /\ history[i].results.category_scores["style"] < 100

(* C27: the issue list of a run follows the order of the loop: an issue of *)
(* a file that comes earlier among the files of the run precedes every     *)
(* issue of a later file, and within one file the issues are in the order  *)
(* of the rules of the run, the rule set being one list for all files with *)
(* the common rules before the rules of the languages.                     *)
C27_IssuesInDiscoveryOrder ==
    \A i \in DOMAIN history :
        LET files  == history[i].files
            issues == history[i].results.issues
            rules  == get_rules_for_language(history[i].results.language)
            file_of(k) == CHOOSE f \in DOMAIN files :
                              files[f].dirs \o <<files[f].name>> = issues[k].file
            rule_of(k) == CHOOSE r \in DOMAIN rules : rules[r].rule_id = issues[k].rule_id
            common(k)  == \E r \in DOMAIN lists[1] : lists[1][r].rule_id = issues[k].rule_id
        IN  /\ \A k \in DOMAIN issues :
                   /\ \E f \in DOMAIN files :
                          files[f].dirs \o <<files[f].name>> = issues[k].file
                   /\ \E r \in DOMAIN rules : rules[r].rule_id = issues[k].rule_id
            /\ \A k, l \in DOMAIN issues :
                   k < l =>
                       /\ file_of(k) <= file_of(l)
                       /\ file_of(k) = file_of(l) =>
                              /\ rule_of(k) <= rule_of(l)
                              /\ common(l) => common(k)

C27_Witness ==
    \E i \in DOMAIN history :
        LET issues == history[i].results.issues
        IN  /\ Len(history[i].files) = 3
            /\ \E k, l \in DOMAIN issues :
                   /\ k < l
                   /\ issues[k].file # issues[l].file
                   /\ issues[k].rule_id = "PY004"
                   /\ issues[l].rule_id = "CMN003"
            /\ \E k, l \in DOMAIN issues :
                   /\ k < l
                   /\ issues[k].file = issues[l].file
                   /\ issues[k].rule_id = "CMN003"
                   /\ issues[l].rule_id = "JS006"

(* C28: no file below a directory whose name is on the deny-list, or       *)
(* matches an exclusion glob of the caller, is among the files of a run,   *)
(* at any depth; and the run is the one of the same project without these  *)
(* files: the same files, language, counters, issues and scores.           *)
C28_PrunedDirectoriesUnseen ==
    LET denied(name) ==
            \/ \E pat \in DEFAULT_IGNORE_DIRS : fnmatch(name, pat)
            \/ \E x \in DOMAIN self.exclude_patterns : fnmatch(name, self.exclude_patterns[x])
        below(file) == \E k \in DOMAIN file.dirs : denied(file.dirs[k])
        kept == SelectSeq(self.target.entries, LAMBDA file : ~below(file))
    IN  ~self.target.is_file =>
            /\ \A i \in DOMAIN history : \A f \in DOMAIN history[i].files :
                   ~below(history[i].files[f])
            /\ (kept # self.target.entries) =>
                   \E full \in {analyze(self, sum_compensated)} :
                   \E bare \in {analyze([self EXCEPT !.target.entries = kept],
                                         sum_compensated)} :
                       /\ full.files = bare.files
                       /\ full.counter = bare.counter
                       /\ [full.results EXCEPT !.target = bare.results.target] = bare.results

C28_Witness ==
    /\ self.exclude_patterns # <<>>
    /\ self.max_files = MaxCap
    /\ \E i \in DOMAIN history :
           /\ Len(history[i].files) = 2
           /\ history[i].results.language = "python"
           /\ \E k \in DOMAIN history[i].results.target.entries :
                  /\ Len(history[i].results.target.entries[k].dirs) = 3
                  /\ history[i].results.target.entries[k].dirs[2] = <<"node_modules">>
           /\ history[i].results.target.entries[1].dirs = <<<<"gen", "js">>, <<"out">>>>
           /\ \A f \in 1..2 : Len(history[i].files[f].dirs) <= 1

(* C29: no rule of any rule list has the category duplication or testing;  *)
(* no issue of a run has one of them, the two categories score 100 in the  *)
(* category scores of every run that has category scores, the overall      *)
(* score of every run is at least 25, and in CI mode no threshold of 25 or *)
(* less makes the command exit with 1.                                     *)
C29_UnpenalisedCategories ==
    /\ \A h \in DOMAIN lists : \A r \in DOMAIN lists[h] :
           lists[h][r].category \notin {"duplication", "testing"}
    /\ \A i \in DOMAIN history :
           LET results == history[i].results
           IN  /\ \A k \in DOMAIN results.issues :
                      results.issues[k].category \notin {"duplication", "testing"}
               /\ \A cat \in {"duplication", "testing"} :
                      cat \in DOMAIN results.category_scores =>
                          results.category_scores[cat] = 100
               /\ results.score >= 25
               /\ \A ci_threshold \in 0..25 :
                      ci_exit_code(TRUE, results.score, ci_threshold) = 0

C29_Witness ==
    \E i \in DOMAIN history :
        /\ history[i].files = WorstWalk
        /\ \A cat \in CategorySet \ {"duplication", "testing", "documentation"} :
               history[i].results.category_scores[cat] = 0
        /\ history[i].results.category_scores["documentation"] = 85
        /\ \A cat \in {"duplication", "testing"} :
               history[i].results.category_scores[cat] = 100
        /\ history[i].results.score = 33

(* C30: every issue of a run comes from a common rule or from a rule of    *)
(* the language that the extension of its file gives: no file is checked   *)
(* by the rules of another language, under the tag 'auto' and with the     *)
(* effective language 'unknown' as well.                                   *)
C30_OwnLanguageRulesOnly ==
    \A i \in DOMAIN history :
        \A k \in DOMAIN history[i].results.issues :
            \A f \in DOMAIN history[i].files :
                path_of(history[i].files[f]) = history[i].results.issues[k].file =>
                    LET own == detect_language(history[i].files[f])
                        own_rules == IF own = "unknown" THEN lists[1]
                                     ELSE get_rules_for_language(own)
                    IN  \E r \in DOMAIN own_rules :
                            own_rules[r].rule_id = history[i].results.issues[k].rule_id

====
